---- MODULE Spec2Model ----
(***************************************************************************)
(* A model of rust_boi: the register file (registers.rs), the memory bus   *)
(* (memory.rs), the instruction tables and executors (instructions.rs),    *)
(* the CPU step (cpu.rs) and the PPU state machine (ppu.rs).               *)
(*                                                                         *)
(* Byte arrays (RomChunk / RamChunk) are kept as finite maps from the      *)
(* offsets that hold a non-default byte to that byte; every other offset   *)
(* reads as 0, the value vec![0; size] gives it.                           *)
(***************************************************************************)
EXTENDS Integers, Sequences, FiniteSets, TLC

VARIABLES
    registers,        \* Cpu.registers : Registers
    memory,           \* Memory (all chunks, boot_enabled, cpu_cycles)
    ppu,              \* Ppu
    pixel_data,       \* the caller's pixel buffer, offset -> byte
    panicked,         \* the process died in panic!/todo!/unwrap/overflow check
    overflow_checks,  \* build profile: TRUE = debug (overflow panics), FALSE = release (wraps)
    turn,             \* GameBoy::step position: "cpu" then "ppu"
    frame_ready,      \* value returned by the last Ppu::step
    boot_image,       \* the boot image handed to Memory::new (never changes)
    steps,            \* number of steps taken so far (bounded)
    frames,           \* number of Ppu::step calls that returned true
    last              \* the last CPU step or bus call: what it was and the registers before it

vars == <<registers, memory, ppu, pixel_data, panicked, overflow_checks, turn,
          frame_ready, boot_image, steps, frames, last>>

-----------------------------------------------------------------------------
(* Bit arithmetic on naturals.                                             *)

RECURSIVE BitAnd(_, _)
BitAnd(a, b) ==
    IF a = 0 \/ b = 0 THEN 0
    ELSE (a % 2) * (b % 2) + 2 * BitAnd(a \div 2, b \div 2)

RECURSIVE BitOr(_, _)
BitOr(a, b) ==
    IF a = 0 THEN b
    ELSE IF b = 0 THEN a
    ELSE (IF (a % 2) + (b % 2) > 0 THEN 1 ELSE 0) + 2 * BitOr(a \div 2, b \div 2)

RECURSIVE BitXor(_, _)
BitXor(a, b) ==
    IF a = 0 THEN b
    ELSE IF b = 0 THEN a
    ELSE (((a % 2) + (b % 2)) % 2) + 2 * BitXor(a \div 2, b \div 2)

BitNot8(a) == 255 - a

\* The value standing for "this evaluation panicked" where a u8/u16 is expected.
PANIC == 0 - 1

\* u16 `+` and `-`: checked in a debug build, wrapping in a release build.
Add16(x, y) ==
    IF x = PANIC \/ y = PANIC THEN PANIC
    ELSE IF x + y > 65535 THEN (IF overflow_checks THEN PANIC ELSE x + y - 65536)
    ELSE x + y

Sub16(x, y) ==
    IF x = PANIC \/ y = PANIC THEN PANIC
    ELSE IF x - y < 0 THEN (IF overflow_checks THEN PANIC ELSE x - y + 65536)
    ELSE x - y

\* u8 `+` and `-`, likewise.
Add8(x, y) ==
    IF x = PANIC \/ y = PANIC THEN PANIC
    ELSE IF x + y > 255 THEN (IF overflow_checks THEN PANIC ELSE x + y - 256)
    ELSE x + y

Sub8(x, y) ==
    IF x = PANIC \/ y = PANIC THEN PANIC
    ELSE IF x - y < 0 THEN (IF overflow_checks THEN PANIC ELSE x - y + 256)
    ELSE x - y

wrapping_add16(x, y) == (x + y) % 65536
wrapping_sub16(x, y) == (x - y + 65536) % 65536
wrapping_add8(x, y) == (x + y) % 256
wrapping_sub8(x, y) == (x - y + 256) % 256

-----------------------------------------------------------------------------
(* registers.rs                                                            *)

SmallRegister == {"B", "C", "A", "F", "D", "E", "H", "L"}
WideRegister == {"PC", "SP", "BC", "AF", "DE", "HL"}

ZERO_FLAG == 128
SUBTRACT_FLAG == 64
HALF_CARRY_FLAG == 32
CARRY_FLAG == 16

\* impl From<u16> for RegisterPair
RegisterPair_from(value) == [l |-> value \div 256, r |-> value % 256]

\* impl From<RegisterPair> for u16
RegisterPair_into(p) == p.l * 256 + p.r

\* Registers::default()
Registers_default ==
    [pc |-> 0, sp |-> 0,
     bc |-> [l |-> 0, r |-> 0], af |-> [l |-> 0, r |-> 0],
     de |-> [l |-> 0, r |-> 0], hl |-> [l |-> 0, r |-> 0]]

read_r8(regs, reg) ==
    CASE reg = "B" -> regs.bc.l
      [] reg = "C" -> regs.bc.r
      [] reg = "A" -> regs.af.l
      [] reg = "F" -> regs.af.r
      [] reg = "D" -> regs.de.l
      [] reg = "E" -> regs.de.r
      [] reg = "H" -> regs.hl.l
      [] reg = "L" -> regs.hl.r

write_r8(regs, reg, value) ==
    CASE reg = "B" -> [regs EXCEPT !.bc.l = value]
      [] reg = "C" -> [regs EXCEPT !.bc.r = value]
      [] reg = "A" -> [regs EXCEPT !.af.l = value]
      [] reg = "F" -> [regs EXCEPT !.af.r = value]
      [] reg = "D" -> [regs EXCEPT !.de.l = value]
      [] reg = "E" -> [regs EXCEPT !.de.r = value]
      [] reg = "H" -> [regs EXCEPT !.hl.l = value]
      [] reg = "L" -> [regs EXCEPT !.hl.r = value]

read_r16(regs, reg) ==
    CASE reg = "PC" -> regs.pc
      [] reg = "SP" -> regs.sp
      [] reg = "BC" -> RegisterPair_into(regs.bc)
      [] reg = "AF" -> RegisterPair_into(regs.af)
      [] reg = "DE" -> RegisterPair_into(regs.de)
      [] reg = "HL" -> RegisterPair_into(regs.hl)

write_r16(regs, reg, value) ==
    CASE reg = "PC" -> [regs EXCEPT !.pc = value]
      [] reg = "SP" -> [regs EXCEPT !.sp = value]
      [] reg = "BC" -> [regs EXCEPT !.bc = RegisterPair_from(value)]
      [] reg = "AF" -> [regs EXCEPT !.af = RegisterPair_from(value)]
      [] reg = "DE" -> [regs EXCEPT !.de = RegisterPair_from(value)]
      [] reg = "HL" -> [regs EXCEPT !.hl = RegisterPair_from(value)]

get_pc(regs) == read_r16(regs, "PC")
inc_pc(regs, by) == write_r16(regs, "PC", wrapping_add16(get_pc(regs), by))
set_pc(regs, pc) == write_r16(regs, "PC", pc)
\* Option::unwrap on an Option held as a set
unwrap(option) == CHOOSE x \in option : TRUE

get_flags(regs) == read_r8(regs, "F")

set_bit_flag(flags, bit, set) ==
    IF set THEN BitOr(flags, bit) ELSE BitAnd(flags, 255 - bit)

\* Each of zero, subtract, half_carry, carry is an Option<bool>: {} or {b}.
set_flags(regs, zero, subtract, half_carry, carry) ==
    LET f0 == read_r8(regs, "F")
        f1 == IF zero = {} THEN f0 ELSE set_bit_flag(f0, ZERO_FLAG, unwrap(zero))
        f2 == IF subtract = {} THEN f1 ELSE set_bit_flag(f1, SUBTRACT_FLAG, unwrap(subtract))
        f3 == IF half_carry = {} THEN f2
              ELSE set_bit_flag(f2, HALF_CARRY_FLAG, unwrap(half_carry))
        f4 == IF carry = {} THEN f3 ELSE set_bit_flag(f3, CARRY_FLAG, unwrap(carry))
    IN  write_r8(regs, "F", f4)

carry_flag(regs) == BitAnd(get_flags(regs), CARRY_FLAG) = CARRY_FLAG

-----------------------------------------------------------------------------
(* memory.rs                                                               *)

START_OF_FIXED_ROM == 0
END_OF_BOOT == 255
END_OF_FIXED_ROM == 16383
START_OF_BANKED_ROM == 16384
END_OF_BANKED_ROM == 32767
START_OF_VRAM == 32768
END_OF_VRAM == 40959
START_OF_CARTRIDGE_RAM == 40960
END_OF_CARTRIDGE_RAM == 49151
START_OF_INTERNAL_RAM == 49152
END_OF_INTERNAL_RAM == 57343
START_OF_ECHO_RAM == 57344
END_OF_ECHO_RAM == 65023
START_OF_HIGH_RAM == 65024
ROM_BANK_SIZE == 16384
BOOT_ROM_ADDRESS == 65360

\* RomChunk::read_u8 / RamChunk::read_u8: self.bytes[address]
chunk_read_u8(bytes, address) ==
    IF address \in DOMAIN bytes THEN bytes[address] ELSE 0

\* RomChunk::write_u8 / RamChunk::write_u8: self.bytes[address] = value
chunk_write_u8(bytes, address, value) ==
    [x \in (DOMAIN bytes) \cup {address} |-> IF x = address THEN value ELSE bytes[x]]

\* RamChunk::new / RomChunk::new_empty: vec![0; size]
chunk_new == [x \in {} |-> 0]

\* Memory::new(boot, cart): the cart is split into the fixed and the banked half.
Memory_new(boot, cart) ==
    [boot |-> boot,
     cart_bank_0 |-> [i \in {x \in DOMAIN cart : x < ROM_BANK_SIZE} |-> cart[i]],
     cart_bank_n |-> [i \in {x - ROM_BANK_SIZE : x \in {y \in DOMAIN cart : y >= ROM_BANK_SIZE}}
                        |-> cart[i + ROM_BANK_SIZE]],
     cart_ram |-> chunk_new,
     vram |-> chunk_new,
     iram |-> chunk_new,
     high_ram |-> chunk_new,
     boot_enabled |-> TRUE,
     cpu_cycles |-> 0]

\* Memory::read_u8: the byte, or PANIC in the echo range (todo!()).
read_u8(mem, address) ==
    IF address = PANIC THEN PANIC
    ELSE IF address >= START_OF_FIXED_ROM /\ address <= END_OF_FIXED_ROM THEN
        IF mem.boot_enabled /\ address <= END_OF_BOOT
        THEN chunk_read_u8(mem.boot, address)
        ELSE chunk_read_u8(mem.cart_bank_0, address)
    ELSE IF address >= START_OF_BANKED_ROM /\ address <= END_OF_BANKED_ROM THEN
        chunk_read_u8(mem.cart_bank_n, address - START_OF_BANKED_ROM)
    ELSE IF address >= START_OF_VRAM /\ address <= END_OF_VRAM THEN
        chunk_read_u8(mem.vram, address - START_OF_VRAM)
    ELSE IF address >= START_OF_CARTRIDGE_RAM /\ address <= END_OF_CARTRIDGE_RAM THEN
        chunk_read_u8(mem.cart_ram, address - START_OF_CARTRIDGE_RAM)
    ELSE IF address >= START_OF_INTERNAL_RAM /\ address <= END_OF_INTERNAL_RAM THEN
        chunk_read_u8(mem.iram, address - START_OF_INTERNAL_RAM)
    ELSE IF address >= START_OF_ECHO_RAM /\ address <= END_OF_ECHO_RAM THEN
        PANIC
    ELSE chunk_read_u8(mem.high_ram, address - START_OF_HIGH_RAM)

\* Memory::read_u16: read_u8(address + 1) << 8 | read_u8(address)
read_u16(mem, address) ==
    LET hi == read_u8(mem, Add16(address, 1))
        lo == read_u8(mem, address)
    IN  IF hi = PANIC \/ lo = PANIC THEN PANIC ELSE hi * 256 + lo

(* The executors below work on a record s = [registers, memory, ppu,       *)
(* pixel_data, panicked, written]: the machine, whether the step has       *)
(* panicked (after which nothing more happens), and the addresses the step *)
(* has written through Memory::write_u8.                                   *)

Panic(s) == [s EXCEPT !.panicked = TRUE]

\* A faulty write_high_mem: the write to 0xFF50 leaves the boot latch as it was.
write_high_mem_keeps_latch(mem, address, value) ==
    [mem EXCEPT !.high_ram = chunk_write_u8(mem.high_ram, address - START_OF_HIGH_RAM, value)]

\* Memory::write_high_mem
write_high_mem(mem, address, value) ==
    LET m1 == IF address = BOOT_ROM_ADDRESS THEN [mem EXCEPT !.boot_enabled = FALSE] ELSE mem
    IN  [m1 EXCEPT !.high_ram = chunk_write_u8(m1.high_ram, address - START_OF_HIGH_RAM, value)]

\* A faulty Memory::write_u8: it takes 0x00FF too for the boot store.
Memory_write_u8_overlay_to_ff(mem, address, value) ==
    IF address >= START_OF_FIXED_ROM /\ address <= END_OF_FIXED_ROM THEN
        IF mem.boot_enabled /\ address <= END_OF_BOOT
        THEN [mem EXCEPT !.boot = chunk_write_u8(mem.boot, address, value)]
        ELSE [mem EXCEPT !.cart_bank_0 = chunk_write_u8(mem.cart_bank_0, address, value)]
    ELSE IF address >= START_OF_BANKED_ROM /\ address <= END_OF_BANKED_ROM THEN
        [mem EXCEPT !.cart_bank_n =
            chunk_write_u8(mem.cart_bank_n, address - START_OF_BANKED_ROM, value)]
    ELSE IF address >= START_OF_VRAM /\ address <= END_OF_VRAM THEN
        [mem EXCEPT !.vram = chunk_write_u8(mem.vram, address - START_OF_VRAM, value)]
    ELSE IF address >= START_OF_CARTRIDGE_RAM /\ address <= END_OF_CARTRIDGE_RAM THEN
        [mem EXCEPT !.cart_ram =
            chunk_write_u8(mem.cart_ram, address - START_OF_CARTRIDGE_RAM, value)]
    ELSE IF address >= START_OF_INTERNAL_RAM /\ address <= END_OF_INTERNAL_RAM THEN
        [mem EXCEPT !.iram = chunk_write_u8(mem.iram, address - START_OF_INTERNAL_RAM, value)]
    ELSE write_high_mem(mem, address, value)

\* Memory::write_u8 on the bus of s.
Memory_write_u8(mem, address, value) ==
    IF address >= START_OF_FIXED_ROM /\ address <= END_OF_FIXED_ROM THEN
        IF mem.boot_enabled /\ address < END_OF_BOOT
        THEN [mem EXCEPT !.boot = chunk_write_u8(mem.boot, address, value)]
        ELSE [mem EXCEPT !.cart_bank_0 = chunk_write_u8(mem.cart_bank_0, address, value)]
    ELSE IF address >= START_OF_BANKED_ROM /\ address <= END_OF_BANKED_ROM THEN
        [mem EXCEPT !.cart_bank_n =
            chunk_write_u8(mem.cart_bank_n, address - START_OF_BANKED_ROM, value)]
    ELSE IF address >= START_OF_VRAM /\ address <= END_OF_VRAM THEN
        [mem EXCEPT !.vram = chunk_write_u8(mem.vram, address - START_OF_VRAM, value)]
    ELSE IF address >= START_OF_CARTRIDGE_RAM /\ address <= END_OF_CARTRIDGE_RAM THEN
        [mem EXCEPT !.cart_ram =
            chunk_write_u8(mem.cart_ram, address - START_OF_CARTRIDGE_RAM, value)]
    ELSE IF address >= START_OF_INTERNAL_RAM /\ address <= END_OF_INTERNAL_RAM THEN
        [mem EXCEPT !.iram = chunk_write_u8(mem.iram, address - START_OF_INTERNAL_RAM, value)]
    ELSE write_high_mem(mem, address, value)

\* A faulty write_u8: the echo range mirrors internal RAM.
write_u8_echo_mirror(s, address, value) ==
    IF s.panicked THEN s
    ELSE IF address = PANIC \/ value = PANIC THEN Panic(s)
    ELSE IF address >= START_OF_ECHO_RAM /\ address <= END_OF_ECHO_RAM
    THEN [s EXCEPT !.memory.iram =
                       chunk_write_u8(s.memory.iram, address - START_OF_ECHO_RAM, value),
                   !.written = s.written \cup {address}]
    ELSE [s EXCEPT !.memory = Memory_write_u8(s.memory, address, value),
                   !.written = s.written \cup {address}]

write_u8(s, address, value) ==
    IF s.panicked THEN s
    ELSE IF address = PANIC \/ value = PANIC THEN Panic(s)
    ELSE IF address >= START_OF_ECHO_RAM /\ address <= END_OF_ECHO_RAM THEN Panic(s)
    ELSE [s EXCEPT !.memory = Memory_write_u8(s.memory, address, value),
                   !.written = s.written \cup {address}]

\* Memory::write_u16: the upper byte to address + 1, then the lower byte to address.
write_u16(s, address, value) ==
    IF s.panicked THEN s
    ELSE IF address = PANIC \/ value = PANIC THEN Panic(s)
    ELSE LET lower == value % 256
             upper == value \div 256
         IN  write_u8(write_u8(s, Add16(address, 1), upper), address, lower)

\* A faulty Memory::write_special_regsiter: the write also clears the boot latch.
write_special_regsiter_clears_latch(s, address, value) ==
    IF s.panicked THEN s
    ELSE IF address > END_OF_ECHO_RAM
    THEN [s EXCEPT !.memory.high_ram =
                       chunk_write_u8(s.memory.high_ram, address - START_OF_HIGH_RAM, value),
                   !.memory.boot_enabled = FALSE]
    ELSE Panic(s)

\* Memory::write_special_regsiter
write_special_regsiter(s, address, value) ==
    IF s.panicked THEN s
    ELSE IF address > END_OF_ECHO_RAM
    THEN [s EXCEPT !.memory.high_ram =
                       chunk_write_u8(s.memory.high_ram, address - START_OF_HIGH_RAM, value)]
    ELSE Panic(s)

-----------------------------------------------------------------------------
(* registers.rs: the stack                                                 *)

\* Registers::stack_push16
stack_push16(s, value) ==
    IF s.panicked THEN s
    ELSE LET new_sp == Sub16(s.registers.sp, 2)
             s1 == write_u16(s, new_sp, value)
         IN  IF new_sp = PANIC THEN Panic(s)
             ELSE IF s1.panicked THEN s1
             ELSE [s1 EXCEPT !.registers.sp = new_sp]

\* A faulty Registers::stack_pop16: the byte at SP is taken for the high byte.
stack_pop16_big_endian(s) ==
    LET value == read_u16(s.memory, s.registers.sp)
        sp2 == Add16(s.registers.sp, 2)
    IN  IF s.panicked THEN [s |-> s, value |-> PANIC]
        ELSE IF value = PANIC \/ sp2 = PANIC THEN [s |-> Panic(s), value |-> PANIC]
        ELSE [s |-> [s EXCEPT !.registers.sp = sp2],
              value |-> (value % 256) * 256 + value \div 256]

\* Registers::stack_pop16: [s |-> the state after, value |-> the value popped]
stack_pop16(s) ==
    LET value == read_u16(s.memory, s.registers.sp)
        sp2 == Add16(s.registers.sp, 2)
    IN  IF s.panicked THEN [s |-> s, value |-> PANIC]
        ELSE IF value = PANIC \/ sp2 = PANIC THEN [s |-> Panic(s), value |-> PANIC]
        ELSE [s |-> [s EXCEPT !.registers.sp = sp2], value |-> value]

\* Registers::stack_peek16
stack_peek16(regs, mem) ==
    LET lower == read_u8(mem, regs.sp)
        upper == read_u8(mem, Add16(regs.sp, 1))
    IN  IF lower = PANIC \/ upper = PANIC THEN PANIC ELSE upper * 256 + lower

-----------------------------------------------------------------------------
(* instructions.rs: the operand descriptor and the two opcode tables.      *)
(* An Option is a set: None is {}, Some(x) is {x}.                         *)


InstructionData_new ==
    [flag_mask |-> {}, flag_expected |-> {}, r8_src |-> {}, r8_dst |-> {},
     r16_src |-> {}, r16_dst |-> {}, code |-> {}, bit |-> {}]

r8_src(data, src) == [data EXCEPT !.r8_src = {src}]
r8_dst(data, dst) == [data EXCEPT !.r8_dst = {dst}]
r16_src(data, src) == [data EXCEPT !.r16_src = {src}]
r16_dst(data, dst) == [data EXCEPT !.r16_dst = {dst}]
with_flags(data, flag_mask, flag_expected) ==
    [data EXCEPT !.flag_mask = {flag_mask}, !.flag_expected = {flag_expected}]
rst_code(data, code) == [data EXCEPT !.code = {code}]
bit(data, b) == [data EXCEPT !.bit = {b}]

\* The instr! macro: Some(Instruction { opcode, execute, cycles, text }).
instr(op, name, cycles, method, additional) ==
    [some |-> TRUE, opcode |-> op, text |-> name, cycles |-> cycles,
     execute |-> method, data |-> additional]

None == [some |-> FALSE]

from_byte_prefixed(byte) ==
    CASE byte = 0 -> instr(byte, "rlc b", 2, "ext_rlc_r8", r8_dst(InstructionData_new, "B"))
      [] byte = 1 -> instr(byte, "rlc c", 2, "ext_rlc_r8", r8_dst(InstructionData_new, "C"))
      [] byte = 2 -> instr(byte, "rlc d", 2, "ext_rlc_r8", r8_dst(InstructionData_new, "D"))
      [] byte = 3 -> instr(byte, "rlc e", 2, "ext_rlc_r8", r8_dst(InstructionData_new, "E"))
      [] byte = 4 -> instr(byte, "rlc h", 2, "ext_rlc_r8", r8_dst(InstructionData_new, "H"))
      [] byte = 5 -> instr(byte, "rlc l", 2, "ext_rlc_r8", r8_dst(InstructionData_new, "L"))
      [] byte = 6 -> instr(byte, "rlc (hl)", 4, "ext_rlc_indir_r16", r16_dst(InstructionData_new, "HL"))
      [] byte = 7 -> instr(byte, "rlc a", 2, "ext_rlc_r8", r8_dst(InstructionData_new, "A"))
      [] byte = 8 -> instr(byte, "rrc b", 2, "ext_rrc_r8", r8_dst(InstructionData_new, "B"))
      [] byte = 9 -> instr(byte, "rrc c", 2, "ext_rrc_r8", r8_dst(InstructionData_new, "C"))
      [] byte = 10 -> instr(byte, "rrc d", 2, "ext_rrc_r8", r8_dst(InstructionData_new, "D"))
      [] byte = 11 -> instr(byte, "rrc e", 2, "ext_rrc_r8", r8_dst(InstructionData_new, "E"))
      [] byte = 12 -> instr(byte, "rrc h", 2, "ext_rrc_r8", r8_dst(InstructionData_new, "H"))
      [] byte = 13 -> instr(byte, "rrc l", 2, "ext_rrc_r8", r8_dst(InstructionData_new, "L"))
      [] byte = 14 -> instr(byte, "rrc (hl)", 4, "ext_rrc_indir_r16", r16_dst(InstructionData_new, "HL"))
      [] byte = 15 -> instr(byte, "rrc a", 2, "ext_rrc_r8", r8_dst(InstructionData_new, "A"))
      [] byte = 16 -> instr(byte, "rl b", 2, "ext_rl_r8", r8_dst(InstructionData_new, "B"))
      [] byte = 17 -> instr(byte, "rl c", 2, "ext_rl_r8", r8_dst(InstructionData_new, "C"))
      [] byte = 18 -> instr(byte, "rl d", 2, "ext_rl_r8", r8_dst(InstructionData_new, "D"))
      [] byte = 19 -> instr(byte, "rl e", 2, "ext_rl_r8", r8_dst(InstructionData_new, "E"))
      [] byte = 20 -> instr(byte, "rl h", 2, "ext_rl_r8", r8_dst(InstructionData_new, "H"))
      [] byte = 21 -> instr(byte, "rl l", 2, "ext_rl_r8", r8_dst(InstructionData_new, "L"))
      [] byte = 22 -> instr(byte, "rl (hl)", 4, "ext_rl_indir_r16", r16_dst(InstructionData_new, "HL"))
      [] byte = 23 -> instr(byte, "rl a", 2, "ext_rl_r8", r8_dst(InstructionData_new, "A"))
      [] byte = 24 -> instr(byte, "rr b", 2, "ext_rr_r8", r8_dst(InstructionData_new, "B"))
      [] byte = 25 -> instr(byte, "rr c", 2, "ext_rr_r8", r8_dst(InstructionData_new, "C"))
      [] byte = 26 -> instr(byte, "rr d", 2, "ext_rr_r8", r8_dst(InstructionData_new, "D"))
      [] byte = 27 -> instr(byte, "rr e", 2, "ext_rr_r8", r8_dst(InstructionData_new, "E"))
      [] byte = 28 -> instr(byte, "rr h", 2, "ext_rr_r8", r8_dst(InstructionData_new, "H"))
      [] byte = 29 -> instr(byte, "rr l", 2, "ext_rr_r8", r8_dst(InstructionData_new, "L"))
      [] byte = 30 -> instr(byte, "rr (hl)", 4, "ext_rr_indir_r16", r16_dst(InstructionData_new, "HL"))
      [] byte = 31 -> instr(byte, "rr a", 2, "ext_rr_r8", r8_dst(InstructionData_new, "A"))
      [] byte = 32 -> instr(byte, "sla b", 2, "ext_sla_r8", r8_dst(InstructionData_new, "B"))
      [] byte = 33 -> instr(byte, "sla c", 2, "ext_sla_r8", r8_dst(InstructionData_new, "C"))
      [] byte = 34 -> instr(byte, "sla d", 2, "ext_sla_r8", r8_dst(InstructionData_new, "D"))
      [] byte = 35 -> instr(byte, "sla e", 2, "ext_sla_r8", r8_dst(InstructionData_new, "E"))
      [] byte = 36 -> instr(byte, "sla h", 2, "ext_sla_r8", r8_dst(InstructionData_new, "H"))
      [] byte = 37 -> instr(byte, "sla l", 2, "ext_sla_r8", r8_dst(InstructionData_new, "L"))
      [] byte = 38 -> instr(byte, "sla (hl)", 4, "ext_sla_indir_r16", r16_dst(InstructionData_new, "HL"))
      [] byte = 39 -> instr(byte, "sla a", 2, "ext_sla_r8", r8_dst(InstructionData_new, "A"))
      [] byte = 40 -> instr(byte, "sra b", 2, "ext_sra_r8", r8_dst(InstructionData_new, "B"))
      [] byte = 41 -> instr(byte, "sra c", 2, "ext_sra_r8", r8_dst(InstructionData_new, "C"))
      [] byte = 42 -> instr(byte, "sra d", 2, "ext_sra_r8", r8_dst(InstructionData_new, "D"))
      [] byte = 43 -> instr(byte, "sra e", 2, "ext_sra_r8", r8_dst(InstructionData_new, "E"))
      [] byte = 44 -> instr(byte, "sra h", 2, "ext_sra_r8", r8_dst(InstructionData_new, "H"))
      [] byte = 45 -> instr(byte, "sra l", 2, "ext_sra_r8", r8_dst(InstructionData_new, "L"))
      [] byte = 46 -> instr(byte, "sra (hl)", 4, "ext_sra_indir_r16", r16_dst(InstructionData_new, "HL"))
      [] byte = 47 -> instr(byte, "sra a", 2, "ext_sra_r8", r8_dst(InstructionData_new, "A"))
      [] byte = 48 -> instr(byte, "swap b", 2, "ext_swap_r8", r8_dst(InstructionData_new, "B"))
      [] byte = 49 -> instr(byte, "swap c", 2, "ext_swap_r8", r8_dst(InstructionData_new, "C"))
      [] byte = 50 -> instr(byte, "swap d", 2, "ext_swap_r8", r8_dst(InstructionData_new, "D"))
      [] byte = 51 -> instr(byte, "swap e", 2, "ext_swap_r8", r8_dst(InstructionData_new, "E"))
      [] byte = 52 -> instr(byte, "swap h", 2, "ext_swap_r8", r8_dst(InstructionData_new, "H"))
      [] byte = 53 -> instr(byte, "swap l", 2, "ext_swap_r8", r8_dst(InstructionData_new, "L"))
      [] byte = 54 -> instr(byte, "swap (hl)", 4, "ext_swap_indir_r16", r16_dst(InstructionData_new, "HL"))
      [] byte = 55 -> instr(byte, "swap a", 2, "ext_swap_r8", r8_dst(InstructionData_new, "A"))
      [] byte = 56 -> instr(byte, "srl b", 2, "ext_srl_r8", r8_dst(InstructionData_new, "B"))
      [] byte = 57 -> instr(byte, "srl c", 2, "ext_srl_r8", r8_dst(InstructionData_new, "C"))
      [] byte = 58 -> instr(byte, "srl d", 2, "ext_srl_r8", r8_dst(InstructionData_new, "D"))
      [] byte = 59 -> instr(byte, "srl e", 2, "ext_srl_r8", r8_dst(InstructionData_new, "E"))
      [] byte = 60 -> instr(byte, "srl h", 2, "ext_srl_r8", r8_dst(InstructionData_new, "H"))
      [] byte = 61 -> instr(byte, "srl l", 2, "ext_srl_r8", r8_dst(InstructionData_new, "L"))
      [] byte = 62 -> instr(byte, "srl (hl)", 4, "ext_srl_indir_r16", r16_dst(InstructionData_new, "HL"))
      [] byte = 63 -> instr(byte, "srl a", 2, "ext_srl_r8", r8_dst(InstructionData_new, "A"))
      [] byte = 64 -> instr(byte, "bit 0, b", 2, "ext_bit_r8", bit(r8_src(InstructionData_new, "B"), 0))
      [] byte = 65 -> instr(byte, "bit 0, c", 2, "ext_bit_r8", bit(r8_src(InstructionData_new, "C"), 0))
      [] byte = 66 -> instr(byte, "bit 0, d", 2, "ext_bit_r8", bit(r8_src(InstructionData_new, "D"), 0))
      [] byte = 67 -> instr(byte, "bit 0, e", 2, "ext_bit_r8", bit(r8_src(InstructionData_new, "E"), 0))
      [] byte = 68 -> instr(byte, "bit 0, h", 2, "ext_bit_r8", bit(r8_src(InstructionData_new, "H"), 0))
      [] byte = 69 -> instr(byte, "bit 0, l", 2, "ext_bit_r8", bit(r8_src(InstructionData_new, "L"), 0))
      [] byte = 70 -> instr(byte, "bit 0, (hl)", 3, "ext_bit_indir_r16", bit(r16_src(InstructionData_new, "HL"), 0))
      [] byte = 71 -> instr(byte, "bit 0, a", 2, "ext_bit_r8", bit(r8_src(InstructionData_new, "A"), 0))
      [] byte = 72 -> instr(byte, "bit 1, b", 2, "ext_bit_r8", bit(r8_src(InstructionData_new, "B"), 1))
      [] byte = 73 -> instr(byte, "bit 1, c", 2, "ext_bit_r8", bit(r8_src(InstructionData_new, "C"), 1))
      [] byte = 74 -> instr(byte, "bit 1, d", 2, "ext_bit_r8", bit(r8_src(InstructionData_new, "D"), 1))
      [] byte = 75 -> instr(byte, "bit 1, e", 2, "ext_bit_r8", bit(r8_src(InstructionData_new, "E"), 1))
      [] byte = 76 -> instr(byte, "bit 1, h", 2, "ext_bit_r8", bit(r8_src(InstructionData_new, "H"), 1))
      [] byte = 77 -> instr(byte, "bit 1, l", 2, "ext_bit_r8", bit(r8_src(InstructionData_new, "L"), 1))
      [] byte = 78 -> instr(byte, "bit 1, (hl)", 3, "ext_bit_indir_r16", bit(r16_src(InstructionData_new, "HL"), 1))
      [] byte = 79 -> instr(byte, "bit 1, a", 2, "ext_bit_r8", bit(r8_src(InstructionData_new, "A"), 1))
      [] byte = 80 -> instr(byte, "bit 2, b", 2, "ext_bit_r8", bit(r8_src(InstructionData_new, "B"), 2))
      [] byte = 81 -> instr(byte, "bit 2, c", 2, "ext_bit_r8", bit(r8_src(InstructionData_new, "C"), 2))
      [] byte = 82 -> instr(byte, "bit 2, d", 2, "ext_bit_r8", bit(r8_src(InstructionData_new, "D"), 2))
      [] byte = 83 -> instr(byte, "bit 2, e", 2, "ext_bit_r8", bit(r8_src(InstructionData_new, "E"), 2))
      [] byte = 84 -> instr(byte, "bit 2, h", 2, "ext_bit_r8", bit(r8_src(InstructionData_new, "H"), 2))
      [] byte = 85 -> instr(byte, "bit 2, l", 2, "ext_bit_r8", bit(r8_src(InstructionData_new, "L"), 2))
      [] byte = 86 -> instr(byte, "bit 2, (hl)", 3, "ext_bit_indir_r16", bit(r16_src(InstructionData_new, "HL"), 2))
      [] byte = 87 -> instr(byte, "bit 2, a", 2, "ext_bit_r8", bit(r8_src(InstructionData_new, "A"), 2))
      [] byte = 88 -> instr(byte, "bit 3, b", 2, "ext_bit_r8", bit(r8_src(InstructionData_new, "B"), 3))
      [] byte = 89 -> instr(byte, "bit 3, c", 2, "ext_bit_r8", bit(r8_src(InstructionData_new, "C"), 3))
      [] byte = 90 -> instr(byte, "bit 3, d", 2, "ext_bit_r8", bit(r8_src(InstructionData_new, "D"), 3))
      [] byte = 91 -> instr(byte, "bit 3, e", 2, "ext_bit_r8", bit(r8_src(InstructionData_new, "E"), 3))
      [] byte = 92 -> instr(byte, "bit 3, h", 2, "ext_bit_r8", bit(r8_src(InstructionData_new, "H"), 3))
      [] byte = 93 -> instr(byte, "bit 3, l", 2, "ext_bit_r8", bit(r8_src(InstructionData_new, "L"), 3))
      [] byte = 94 -> instr(byte, "bit 3, (hl)", 3, "ext_bit_indir_r16", bit(r16_src(InstructionData_new, "HL"), 3))
      [] byte = 95 -> instr(byte, "bit 3, a", 2, "ext_bit_r8", bit(r8_src(InstructionData_new, "A"), 3))
      [] byte = 96 -> instr(byte, "bit 4, b", 2, "ext_bit_r8", bit(r8_src(InstructionData_new, "B"), 4))
      [] byte = 97 -> instr(byte, "bit 4, c", 2, "ext_bit_r8", bit(r8_src(InstructionData_new, "C"), 4))
      [] byte = 98 -> instr(byte, "bit 4, d", 2, "ext_bit_r8", bit(r8_src(InstructionData_new, "D"), 4))
      [] byte = 99 -> instr(byte, "bit 4, e", 2, "ext_bit_r8", bit(r8_src(InstructionData_new, "E"), 4))
      [] byte = 100 -> instr(byte, "bit 4, h", 2, "ext_bit_r8", bit(r8_src(InstructionData_new, "H"), 4))
      [] byte = 101 -> instr(byte, "bit 4, l", 2, "ext_bit_r8", bit(r8_src(InstructionData_new, "L"), 4))
      [] byte = 102 -> instr(byte, "bit 4, (hl)", 3, "ext_bit_indir_r16", bit(r16_src(InstructionData_new, "HL"), 4))
      [] byte = 103 -> instr(byte, "bit 4, a", 2, "ext_bit_r8", bit(r8_src(InstructionData_new, "A"), 4))
      [] byte = 104 -> instr(byte, "bit 5, b", 2, "ext_bit_r8", bit(r8_src(InstructionData_new, "B"), 5))
      [] byte = 105 -> instr(byte, "bit 5, c", 2, "ext_bit_r8", bit(r8_src(InstructionData_new, "C"), 5))
      [] byte = 106 -> instr(byte, "bit 5, d", 2, "ext_bit_r8", bit(r8_src(InstructionData_new, "D"), 5))
      [] byte = 107 -> instr(byte, "bit 5, e", 2, "ext_bit_r8", bit(r8_src(InstructionData_new, "E"), 5))
      [] byte = 108 -> instr(byte, "bit 5, h", 2, "ext_bit_r8", bit(r8_src(InstructionData_new, "H"), 5))
      [] byte = 109 -> instr(byte, "bit 5, l", 2, "ext_bit_r8", bit(r8_src(InstructionData_new, "L"), 5))
      [] byte = 110 -> instr(byte, "bit 5, (hl)", 3, "ext_bit_indir_r16", bit(r16_src(InstructionData_new, "HL"), 5))
      [] byte = 111 -> instr(byte, "bit 5, a", 2, "ext_bit_r8", bit(r8_src(InstructionData_new, "A"), 5))
      [] byte = 112 -> instr(byte, "bit 6, b", 2, "ext_bit_r8", bit(r8_src(InstructionData_new, "B"), 6))
      [] byte = 113 -> instr(byte, "bit 6, c", 2, "ext_bit_r8", bit(r8_src(InstructionData_new, "C"), 6))
      [] byte = 114 -> instr(byte, "bit 6, d", 2, "ext_bit_r8", bit(r8_src(InstructionData_new, "D"), 6))
      [] byte = 115 -> instr(byte, "bit 6, e", 2, "ext_bit_r8", bit(r8_src(InstructionData_new, "E"), 6))
      [] byte = 116 -> instr(byte, "bit 6, h", 2, "ext_bit_r8", bit(r8_src(InstructionData_new, "H"), 6))
      [] byte = 117 -> instr(byte, "bit 6, l", 2, "ext_bit_r8", bit(r8_src(InstructionData_new, "L"), 6))
      [] byte = 118 -> instr(byte, "bit 6, (hl)", 3, "ext_bit_indir_r16", bit(r16_src(InstructionData_new, "HL"), 6))
      [] byte = 119 -> instr(byte, "bit 6, a", 2, "ext_bit_r8", bit(r8_src(InstructionData_new, "A"), 6))
      [] byte = 120 -> instr(byte, "bit 7, b", 2, "ext_bit_r8", bit(r8_src(InstructionData_new, "B"), 7))
      [] byte = 121 -> instr(byte, "bit 7, c", 2, "ext_bit_r8", bit(r8_src(InstructionData_new, "C"), 7))
      [] byte = 122 -> instr(byte, "bit 7, d", 2, "ext_bit_r8", bit(r8_src(InstructionData_new, "D"), 7))
      [] byte = 123 -> instr(byte, "bit 7, e", 2, "ext_bit_r8", bit(r8_src(InstructionData_new, "E"), 7))
      [] byte = 124 -> instr(byte, "bit 7, h", 2, "ext_bit_r8", bit(r8_src(InstructionData_new, "H"), 7))
      [] byte = 125 -> instr(byte, "bit 7, l", 2, "ext_bit_r8", bit(r8_src(InstructionData_new, "L"), 7))
      [] byte = 126 -> instr(byte, "bit 7, (hl)", 3, "ext_bit_indir_r16", bit(r16_src(InstructionData_new, "HL"), 7))
      [] byte = 127 -> instr(byte, "bit 7, a", 2, "ext_bit_r8", bit(r8_src(InstructionData_new, "A"), 7))
      [] byte = 128 -> instr(byte, "res 0, b", 2, "ext_res_bit_r8", bit(r8_src(InstructionData_new, "B"), 0))
      [] byte = 129 -> instr(byte, "res 0, c", 2, "ext_res_bit_r8", bit(r8_src(InstructionData_new, "C"), 0))
      [] byte = 130 -> instr(byte, "res 0, d", 2, "ext_res_bit_r8", bit(r8_src(InstructionData_new, "D"), 0))
      [] byte = 131 -> instr(byte, "res 0, e", 2, "ext_res_bit_r8", bit(r8_src(InstructionData_new, "E"), 0))
      [] byte = 132 -> instr(byte, "res 0, h", 2, "ext_res_bit_r8", bit(r8_src(InstructionData_new, "H"), 0))
      [] byte = 133 -> instr(byte, "res 0, l", 2, "ext_res_bit_r8", bit(r8_src(InstructionData_new, "L"), 0))
      [] byte = 134 -> instr(byte, "res 0, (hl)", 4, "ext_res_bit_indir_r16", bit(r16_src(InstructionData_new, "HL"), 0))
      [] byte = 135 -> instr(byte, "res 0, a", 2, "ext_res_bit_r8", bit(r8_src(InstructionData_new, "A"), 0))
      [] byte = 136 -> instr(byte, "res 1, b", 2, "ext_res_bit_r8", bit(r8_src(InstructionData_new, "B"), 1))
      [] byte = 137 -> instr(byte, "res 1, c", 2, "ext_res_bit_r8", bit(r8_src(InstructionData_new, "C"), 1))
      [] byte = 138 -> instr(byte, "res 1, d", 2, "ext_res_bit_r8", bit(r8_src(InstructionData_new, "D"), 1))
      [] byte = 139 -> instr(byte, "res 1, e", 2, "ext_res_bit_r8", bit(r8_src(InstructionData_new, "E"), 1))
      [] byte = 140 -> instr(byte, "res 1, h", 2, "ext_res_bit_r8", bit(r8_src(InstructionData_new, "H"), 1))
      [] byte = 141 -> instr(byte, "res 1, l", 2, "ext_res_bit_r8", bit(r8_src(InstructionData_new, "L"), 1))
      [] byte = 142 -> instr(byte, "res 1, (hl)", 4, "ext_res_bit_indir_r16", bit(r16_src(InstructionData_new, "HL"), 1))
      [] byte = 143 -> instr(byte, "res 1, a", 2, "ext_res_bit_r8", bit(r8_src(InstructionData_new, "A"), 1))
      [] byte = 144 -> instr(byte, "res 2, b", 2, "ext_res_bit_r8", bit(r8_src(InstructionData_new, "B"), 2))
      [] byte = 145 -> instr(byte, "res 2, c", 2, "ext_res_bit_r8", bit(r8_src(InstructionData_new, "C"), 2))
      [] byte = 146 -> instr(byte, "res 2, d", 2, "ext_res_bit_r8", bit(r8_src(InstructionData_new, "D"), 2))
      [] byte = 147 -> instr(byte, "res 2, e", 2, "ext_res_bit_r8", bit(r8_src(InstructionData_new, "E"), 2))
      [] byte = 148 -> instr(byte, "res 2, h", 2, "ext_res_bit_r8", bit(r8_src(InstructionData_new, "H"), 2))
      [] byte = 149 -> instr(byte, "res 2, l", 2, "ext_res_bit_r8", bit(r8_src(InstructionData_new, "L"), 2))
      [] byte = 150 -> instr(byte, "res 2, (hl)", 4, "ext_res_bit_indir_r16", bit(r16_src(InstructionData_new, "HL"), 2))
      [] byte = 151 -> instr(byte, "res 2, a", 2, "ext_res_bit_r8", bit(r8_src(InstructionData_new, "A"), 2))
      [] byte = 152 -> instr(byte, "res 3, b", 2, "ext_res_bit_r8", bit(r8_src(InstructionData_new, "B"), 3))
      [] byte = 153 -> instr(byte, "res 3, c", 2, "ext_res_bit_r8", bit(r8_src(InstructionData_new, "C"), 3))
      [] byte = 154 -> instr(byte, "res 3, d", 2, "ext_res_bit_r8", bit(r8_src(InstructionData_new, "D"), 3))
      [] byte = 155 -> instr(byte, "res 3, e", 2, "ext_res_bit_r8", bit(r8_src(InstructionData_new, "E"), 3))
      [] byte = 156 -> instr(byte, "res 3, h", 2, "ext_res_bit_r8", bit(r8_src(InstructionData_new, "H"), 3))
      [] byte = 157 -> instr(byte, "res 3, l", 2, "ext_res_bit_r8", bit(r8_src(InstructionData_new, "L"), 3))
      [] byte = 158 -> instr(byte, "res 3, (hl)", 4, "ext_res_bit_indir_r16", bit(r16_src(InstructionData_new, "HL"), 3))
      [] byte = 159 -> instr(byte, "res 3, a", 2, "ext_res_bit_r8", bit(r8_src(InstructionData_new, "A"), 3))
      [] byte = 160 -> instr(byte, "res 4, b", 2, "ext_res_bit_r8", bit(r8_src(InstructionData_new, "B"), 4))
      [] byte = 161 -> instr(byte, "res 4, c", 2, "ext_res_bit_r8", bit(r8_src(InstructionData_new, "C"), 4))
      [] byte = 162 -> instr(byte, "res 4, d", 2, "ext_res_bit_r8", bit(r8_src(InstructionData_new, "D"), 4))
      [] byte = 163 -> instr(byte, "res 4, e", 2, "ext_res_bit_r8", bit(r8_src(InstructionData_new, "E"), 4))
      [] byte = 164 -> instr(byte, "res 4, h", 2, "ext_res_bit_r8", bit(r8_src(InstructionData_new, "H"), 4))
      [] byte = 165 -> instr(byte, "res 4, l", 2, "ext_res_bit_r8", bit(r8_src(InstructionData_new, "L"), 4))
      [] byte = 166 -> instr(byte, "res 4, (hl)", 4, "ext_res_bit_indir_r16", bit(r16_src(InstructionData_new, "HL"), 4))
      [] byte = 167 -> instr(byte, "res 4, a", 2, "ext_res_bit_r8", bit(r8_src(InstructionData_new, "A"), 4))
      [] byte = 168 -> instr(byte, "res 5, b", 2, "ext_res_bit_r8", bit(r8_src(InstructionData_new, "B"), 5))
      [] byte = 169 -> instr(byte, "res 5, c", 2, "ext_res_bit_r8", bit(r8_src(InstructionData_new, "C"), 5))
      [] byte = 170 -> instr(byte, "res 5, d", 2, "ext_res_bit_r8", bit(r8_src(InstructionData_new, "D"), 5))
      [] byte = 171 -> instr(byte, "res 5, e", 2, "ext_res_bit_r8", bit(r8_src(InstructionData_new, "E"), 5))
      [] byte = 172 -> instr(byte, "res 5, h", 2, "ext_res_bit_r8", bit(r8_src(InstructionData_new, "H"), 5))
      [] byte = 173 -> instr(byte, "res 5, l", 2, "ext_res_bit_r8", bit(r8_src(InstructionData_new, "L"), 5))
      [] byte = 174 -> instr(byte, "res 5, (hl)", 4, "ext_res_bit_indir_r16", bit(r16_src(InstructionData_new, "HL"), 5))
      [] byte = 175 -> instr(byte, "res 5, a", 2, "ext_res_bit_r8", bit(r8_src(InstructionData_new, "A"), 5))
      [] byte = 176 -> instr(byte, "res 6, b", 2, "ext_res_bit_r8", bit(r8_src(InstructionData_new, "B"), 6))
      [] byte = 177 -> instr(byte, "res 6, c", 2, "ext_res_bit_r8", bit(r8_src(InstructionData_new, "C"), 6))
      [] byte = 178 -> instr(byte, "res 6, d", 2, "ext_res_bit_r8", bit(r8_src(InstructionData_new, "D"), 6))
      [] byte = 179 -> instr(byte, "res 6, e", 2, "ext_res_bit_r8", bit(r8_src(InstructionData_new, "E"), 6))
      [] byte = 180 -> instr(byte, "res 6, h", 2, "ext_res_bit_r8", bit(r8_src(InstructionData_new, "H"), 6))
      [] byte = 181 -> instr(byte, "res 6, l", 2, "ext_res_bit_r8", bit(r8_src(InstructionData_new, "L"), 6))
      [] byte = 182 -> instr(byte, "res 6, (hl)", 4, "ext_res_bit_indir_r16", bit(r16_src(InstructionData_new, "HL"), 6))
      [] byte = 183 -> instr(byte, "res 6, a", 2, "ext_res_bit_r8", bit(r8_src(InstructionData_new, "A"), 6))
      [] byte = 184 -> instr(byte, "res 7, b", 2, "ext_res_bit_r8", bit(r8_src(InstructionData_new, "B"), 7))
      [] byte = 185 -> instr(byte, "res 7, c", 2, "ext_res_bit_r8", bit(r8_src(InstructionData_new, "C"), 7))
      [] byte = 186 -> instr(byte, "res 7, d", 2, "ext_res_bit_r8", bit(r8_src(InstructionData_new, "D"), 7))
      [] byte = 187 -> instr(byte, "res 7, e", 2, "ext_res_bit_r8", bit(r8_src(InstructionData_new, "E"), 7))
      [] byte = 188 -> instr(byte, "res 7, h", 2, "ext_res_bit_r8", bit(r8_src(InstructionData_new, "H"), 7))
      [] byte = 189 -> instr(byte, "res 7, l", 2, "ext_res_bit_r8", bit(r8_src(InstructionData_new, "L"), 7))
      [] byte = 190 -> instr(byte, "res 7, (hl)", 4, "ext_res_bit_indir_r16", bit(r16_src(InstructionData_new, "HL"), 7))
      [] byte = 191 -> instr(byte, "res 7, a", 2, "ext_res_bit_r8", bit(r8_src(InstructionData_new, "A"), 7))
      [] byte = 192 -> instr(byte, "set 0, b", 2, "ext_set_bit_r8", bit(r8_src(InstructionData_new, "B"), 0))
      [] byte = 193 -> instr(byte, "set 0, c", 2, "ext_set_bit_r8", bit(r8_src(InstructionData_new, "C"), 0))
      [] byte = 194 -> instr(byte, "set 0, d", 2, "ext_set_bit_r8", bit(r8_src(InstructionData_new, "D"), 0))
      [] byte = 195 -> instr(byte, "set 0, e", 2, "ext_set_bit_r8", bit(r8_src(InstructionData_new, "E"), 0))
      [] byte = 196 -> instr(byte, "set 0, h", 2, "ext_set_bit_r8", bit(r8_src(InstructionData_new, "H"), 0))
      [] byte = 197 -> instr(byte, "set 0, l", 2, "ext_set_bit_r8", bit(r8_src(InstructionData_new, "L"), 0))
      [] byte = 198 -> instr(byte, "set 0, (hl)", 4, "ext_set_bit_indir_r16", bit(r16_src(InstructionData_new, "HL"), 0))
      [] byte = 199 -> instr(byte, "set 0, a", 2, "ext_set_bit_r8", bit(r8_src(InstructionData_new, "A"), 0))
      [] byte = 200 -> instr(byte, "set 1, b", 2, "ext_set_bit_r8", bit(r8_src(InstructionData_new, "B"), 1))
      [] byte = 201 -> instr(byte, "set 1, c", 2, "ext_set_bit_r8", bit(r8_src(InstructionData_new, "C"), 1))
      [] byte = 202 -> instr(byte, "set 1, d", 2, "ext_set_bit_r8", bit(r8_src(InstructionData_new, "D"), 1))
      [] byte = 203 -> instr(byte, "set 1, e", 2, "ext_set_bit_r8", bit(r8_src(InstructionData_new, "E"), 1))
      [] byte = 204 -> instr(byte, "set 1, h", 2, "ext_set_bit_r8", bit(r8_src(InstructionData_new, "H"), 1))
      [] byte = 205 -> instr(byte, "set 1, l", 2, "ext_set_bit_r8", bit(r8_src(InstructionData_new, "L"), 1))
      [] byte = 206 -> instr(byte, "set 1, (hl)", 4, "ext_set_bit_indir_r16", bit(r16_src(InstructionData_new, "HL"), 1))
      [] byte = 207 -> instr(byte, "set 1, a", 2, "ext_set_bit_r8", bit(r8_src(InstructionData_new, "A"), 1))
      [] byte = 208 -> instr(byte, "set 2, b", 2, "ext_set_bit_r8", bit(r8_src(InstructionData_new, "B"), 2))
      [] byte = 209 -> instr(byte, "set 2, c", 2, "ext_set_bit_r8", bit(r8_src(InstructionData_new, "C"), 2))
      [] byte = 210 -> instr(byte, "set 2, d", 2, "ext_set_bit_r8", bit(r8_src(InstructionData_new, "D"), 2))
      [] byte = 211 -> instr(byte, "set 2, e", 2, "ext_set_bit_r8", bit(r8_src(InstructionData_new, "E"), 2))
      [] byte = 212 -> instr(byte, "set 2, h", 2, "ext_set_bit_r8", bit(r8_src(InstructionData_new, "H"), 2))
      [] byte = 213 -> instr(byte, "set 2, l", 2, "ext_set_bit_r8", bit(r8_src(InstructionData_new, "L"), 2))
      [] byte = 214 -> instr(byte, "set 2, (hl)", 4, "ext_set_bit_indir_r16", bit(r16_src(InstructionData_new, "HL"), 2))
      [] byte = 215 -> instr(byte, "set 2, a", 2, "ext_set_bit_r8", bit(r8_src(InstructionData_new, "A"), 2))
      [] byte = 216 -> instr(byte, "set 3, b", 2, "ext_set_bit_r8", bit(r8_src(InstructionData_new, "B"), 3))
      [] byte = 217 -> instr(byte, "set 3, c", 2, "ext_set_bit_r8", bit(r8_src(InstructionData_new, "C"), 3))
      [] byte = 218 -> instr(byte, "set 3, d", 2, "ext_set_bit_r8", bit(r8_src(InstructionData_new, "D"), 3))
      [] byte = 219 -> instr(byte, "set 3, e", 2, "ext_set_bit_r8", bit(r8_src(InstructionData_new, "E"), 3))
      [] byte = 220 -> instr(byte, "set 3, h", 2, "ext_set_bit_r8", bit(r8_src(InstructionData_new, "H"), 3))
      [] byte = 221 -> instr(byte, "set 3, l", 2, "ext_set_bit_r8", bit(r8_src(InstructionData_new, "L"), 3))
      [] byte = 222 -> instr(byte, "set 3, (hl)", 4, "ext_set_bit_indir_r16", bit(r16_src(InstructionData_new, "HL"), 3))
      [] byte = 223 -> instr(byte, "set 3, a", 2, "ext_set_bit_r8", bit(r8_src(InstructionData_new, "A"), 3))
      [] byte = 224 -> instr(byte, "set 4, b", 2, "ext_set_bit_r8", bit(r8_src(InstructionData_new, "B"), 4))
      [] byte = 225 -> instr(byte, "set 4, c", 2, "ext_set_bit_r8", bit(r8_src(InstructionData_new, "C"), 4))
      [] byte = 226 -> instr(byte, "set 4, d", 2, "ext_set_bit_r8", bit(r8_src(InstructionData_new, "D"), 4))
      [] byte = 227 -> instr(byte, "set 4, e", 2, "ext_set_bit_r8", bit(r8_src(InstructionData_new, "E"), 4))
      [] byte = 228 -> instr(byte, "set 4, h", 2, "ext_set_bit_r8", bit(r8_src(InstructionData_new, "H"), 4))
      [] byte = 229 -> instr(byte, "set 4, l", 2, "ext_set_bit_r8", bit(r8_src(InstructionData_new, "L"), 4))
      [] byte = 230 -> instr(byte, "set 4, (hl)", 4, "ext_set_bit_indir_r16", bit(r16_src(InstructionData_new, "HL"), 4))
      [] byte = 231 -> instr(byte, "set 4, a", 2, "ext_set_bit_r8", bit(r8_src(InstructionData_new, "A"), 4))
      [] byte = 232 -> instr(byte, "set 5, b", 2, "ext_set_bit_r8", bit(r8_src(InstructionData_new, "B"), 5))
      [] byte = 233 -> instr(byte, "set 5, c", 2, "ext_set_bit_r8", bit(r8_src(InstructionData_new, "C"), 5))
      [] byte = 234 -> instr(byte, "set 5, d", 2, "ext_set_bit_r8", bit(r8_src(InstructionData_new, "D"), 5))
      [] byte = 235 -> instr(byte, "set 5, e", 2, "ext_set_bit_r8", bit(r8_src(InstructionData_new, "E"), 5))
      [] byte = 236 -> instr(byte, "set 5, h", 2, "ext_set_bit_r8", bit(r8_src(InstructionData_new, "H"), 5))
      [] byte = 237 -> instr(byte, "set 5, l", 2, "ext_set_bit_r8", bit(r8_src(InstructionData_new, "L"), 5))
      [] byte = 238 -> instr(byte, "set 5, (hl)", 4, "ext_set_bit_indir_r16", bit(r16_src(InstructionData_new, "HL"), 5))
      [] byte = 239 -> instr(byte, "set 5, a", 2, "ext_set_bit_r8", bit(r8_src(InstructionData_new, "A"), 5))
      [] byte = 240 -> instr(byte, "set 6, b", 2, "ext_set_bit_r8", bit(r8_src(InstructionData_new, "B"), 6))
      [] byte = 241 -> instr(byte, "set 6, c", 2, "ext_set_bit_r8", bit(r8_src(InstructionData_new, "C"), 6))
      [] byte = 242 -> instr(byte, "set 6, d", 2, "ext_set_bit_r8", bit(r8_src(InstructionData_new, "D"), 6))
      [] byte = 243 -> instr(byte, "set 6, e", 2, "ext_set_bit_r8", bit(r8_src(InstructionData_new, "E"), 6))
      [] byte = 244 -> instr(byte, "set 6, h", 2, "ext_set_bit_r8", bit(r8_src(InstructionData_new, "H"), 6))
      [] byte = 245 -> instr(byte, "set 6, l", 2, "ext_set_bit_r8", bit(r8_src(InstructionData_new, "L"), 6))
      [] byte = 246 -> instr(byte, "set 6, (hl)", 4, "ext_set_bit_indir_r16", bit(r16_src(InstructionData_new, "HL"), 6))
      [] byte = 247 -> instr(byte, "set 6, a", 2, "ext_set_bit_r8", bit(r8_src(InstructionData_new, "A"), 6))
      [] byte = 248 -> instr(byte, "set 7, b", 2, "ext_set_bit_r8", bit(r8_src(InstructionData_new, "B"), 7))
      [] byte = 249 -> instr(byte, "set 7, c", 2, "ext_set_bit_r8", bit(r8_src(InstructionData_new, "C"), 7))
      [] byte = 250 -> instr(byte, "set 7, d", 2, "ext_set_bit_r8", bit(r8_src(InstructionData_new, "D"), 7))
      [] byte = 251 -> instr(byte, "set 7, e", 2, "ext_set_bit_r8", bit(r8_src(InstructionData_new, "E"), 7))
      [] byte = 252 -> instr(byte, "set 7, h", 2, "ext_set_bit_r8", bit(r8_src(InstructionData_new, "H"), 7))
      [] byte = 253 -> instr(byte, "set 7, l", 2, "ext_set_bit_r8", bit(r8_src(InstructionData_new, "L"), 7))
      [] byte = 254 -> instr(byte, "set 7, (hl)", 4, "ext_set_bit_indir_r16", bit(r16_src(InstructionData_new, "HL"), 7))
      [] byte = 255 -> instr(byte, "set 7, a", 2, "ext_set_bit_r8", bit(r8_src(InstructionData_new, "A"), 7))

from_byte_not_prefixed(byte) ==
    CASE byte = 0 -> instr(byte, "nop", 1, "no_op", InstructionData_new)
      [] byte = 1 -> instr(byte, "ld bc, d16", 3, "ld_r16_imm16", r16_dst(InstructionData_new, "BC"))
      [] byte = 2 -> instr(byte, "ld (bc), a", 2, "ld_indir_r16_r8", r8_src(r16_dst(InstructionData_new, "BC"), "A"))
      [] byte = 3 -> instr(byte, "inc bc", 2, "inc_r16", r16_dst(InstructionData_new, "BC"))
      [] byte = 4 -> instr(byte, "inc b", 1, "inc_r8", r8_dst(InstructionData_new, "B"))
      [] byte = 5 -> instr(byte, "dec b", 1, "dec_r8", r8_dst(InstructionData_new, "B"))
      [] byte = 6 -> instr(byte, "ld b, d8", 2, "ld_r8_imm8", r8_dst(InstructionData_new, "B"))
      [] byte = 7 -> instr(byte, "rlca", 1, "rlca", InstructionData_new)
      [] byte = 8 -> instr(byte, "ld (a16), sp", 5, "ld_indir_imm16_sp", InstructionData_new)
      [] byte = 9 -> instr(byte, "add hl, bc", 2, "add_r16_r16", r16_dst(r16_src(InstructionData_new, "BC"), "HL"))
      [] byte = 10 -> instr(byte, "ld a, (bc)", 2, "ld_r8_indir_r16", r16_src(r8_dst(InstructionData_new, "A"), "BC"))
      [] byte = 11 -> instr(byte, "dec bc", 2, "dec_r16", r16_dst(InstructionData_new, "BC"))
      [] byte = 12 -> instr(byte, "inc c", 1, "inc_r8", r8_dst(InstructionData_new, "C"))
      [] byte = 13 -> instr(byte, "dec c", 1, "dec_r8", r8_dst(InstructionData_new, "C"))
      [] byte = 14 -> instr(byte, "ld c, d8", 2, "ld_r8_imm8", r8_dst(InstructionData_new, "C"))
      [] byte = 15 -> instr(byte, "rrca", 1, "rrca", InstructionData_new)
      [] byte = 16 -> instr(byte, "stop", 1, "stop", InstructionData_new)
      [] byte = 17 -> instr(byte, "ld de, d16", 3, "ld_r16_imm16", r16_dst(InstructionData_new, "DE"))
      [] byte = 18 -> instr(byte, "ld (de), a", 2, "ld_indir_r16_r8", r8_src(r16_dst(InstructionData_new, "DE"), "A"))
      [] byte = 19 -> instr(byte, "inc de", 2, "inc_r16", r16_dst(InstructionData_new, "DE"))
      [] byte = 20 -> instr(byte, "inc d", 1, "inc_r8", r8_dst(InstructionData_new, "D"))
      [] byte = 21 -> instr(byte, "dec d", 1, "dec_r8", r8_dst(InstructionData_new, "D"))
      [] byte = 22 -> instr(byte, "ld d, d8", 2, "ld_r8_imm8", r8_dst(InstructionData_new, "D"))
      [] byte = 23 -> instr(byte, "rla", 1, "rla", InstructionData_new)
      [] byte = 24 -> instr(byte, "jr s8", 3, "jump_rel_imm8", with_flags(InstructionData_new, 0, 0))
      [] byte = 25 -> instr(byte, "add hl, de", 2, "add_r16_r16", r16_dst(r16_src(InstructionData_new, "DE"), "HL"))
      [] byte = 26 -> instr(byte, "ld a, (de)", 2, "ld_r8_indir_r16", r16_src(r8_dst(InstructionData_new, "A"), "DE"))
      [] byte = 27 -> instr(byte, "dec de", 2, "dec_r16", r16_dst(InstructionData_new, "DE"))
      [] byte = 28 -> instr(byte, "inc e", 1, "inc_r8", r8_dst(InstructionData_new, "E"))
      [] byte = 29 -> instr(byte, "dec e", 1, "dec_r8", r8_dst(InstructionData_new, "E"))
      [] byte = 30 -> instr(byte, "ld e, d8", 2, "ld_r8_imm8", r8_dst(InstructionData_new, "E"))
      [] byte = 31 -> instr(byte, "rra", 1, "rra", InstructionData_new)
      [] byte = 32 -> instr(byte, "jr nz, s8", 3, "jump_rel_imm8", with_flags(InstructionData_new, ZERO_FLAG, 0))
      [] byte = 33 -> instr(byte, "ld hl, d16", 3, "ld_r16_imm16", r16_dst(InstructionData_new, "HL"))
      [] byte = 34 -> instr(byte, "ld (hl+), a", 2, "ldi_indir_r16_r8", r16_dst(r8_src(InstructionData_new, "A"), "HL"))
      [] byte = 35 -> instr(byte, "inc hl", 2, "inc_r16", r16_dst(InstructionData_new, "HL"))
      [] byte = 36 -> instr(byte, "inc h", 1, "inc_r8", r8_dst(InstructionData_new, "H"))
      [] byte = 37 -> instr(byte, "dec h", 1, "dec_r8", r8_dst(InstructionData_new, "H"))
      [] byte = 38 -> instr(byte, "ld h, d8", 2, "ld_r8_imm8", r8_dst(InstructionData_new, "H"))
      [] byte = 39 -> None
      [] byte = 40 -> instr(byte, "jr z, s8", 3, "jump_rel_imm8", with_flags(InstructionData_new, ZERO_FLAG, ZERO_FLAG))
      [] byte = 41 -> instr(byte, "add hl, hl", 2, "add_r16_r16", r16_dst(r16_src(InstructionData_new, "HL"), "HL"))
      [] byte = 42 -> instr(byte, "ld a, (hl+)", 2, "ldi_r8_indir_r16", r8_dst(r16_src(InstructionData_new, "HL"), "A"))
      [] byte = 43 -> instr(byte, "dec hl", 2, "dec_r16", r16_dst(InstructionData_new, "HL"))
      [] byte = 44 -> instr(byte, "inc l", 1, "inc_r8", r8_dst(InstructionData_new, "L"))
      [] byte = 45 -> instr(byte, "dec l", 1, "dec_r8", r8_dst(InstructionData_new, "L"))
      [] byte = 46 -> instr(byte, "ld l, d8", 2, "ld_r8_imm8", r8_dst(InstructionData_new, "L"))
      [] byte = 47 -> instr(byte, "cpl", 1, "cpl", InstructionData_new)
      [] byte = 48 -> instr(byte, "jr nc, s8", 3, "jump_rel_imm8", with_flags(InstructionData_new, CARRY_FLAG, 0))
      [] byte = 49 -> instr(byte, "ld sp, d16", 3, "ld_r16_imm16", r16_dst(InstructionData_new, "SP"))
      [] byte = 50 -> instr(byte, "ld (hl-), a", 2, "ldd_indir_r16_r8", r16_dst(r8_src(InstructionData_new, "A"), "HL"))
      [] byte = 51 -> instr(byte, "inc sp", 2, "inc_r16", r16_dst(InstructionData_new, "SP"))
      [] byte = 52 -> instr(byte, "inc (hl)", 3, "inc_indir_r16", r16_dst(InstructionData_new, "HL"))
      [] byte = 53 -> instr(byte, "dec (hl)", 3, "dec_indir_r16", r16_dst(InstructionData_new, "HL"))
      [] byte = 54 -> instr(byte, "ld (hl), d8", 3, "ld_indir_r16_imm8", r16_dst(InstructionData_new, "HL"))
      [] byte = 55 -> instr(byte, "scf", 1, "scf", InstructionData_new)
      [] byte = 56 -> instr(byte, "jr s8", 3, "jump_rel_imm8", with_flags(InstructionData_new, CARRY_FLAG, CARRY_FLAG))
      [] byte = 57 -> instr(byte, "add hl, sp", 2, "add_r16_r16", r16_dst(r16_src(InstructionData_new, "SP"), "HL"))
      [] byte = 58 -> instr(byte, "ld a, (hl-)", 2, "ldd_r8_indir_r16", r8_dst(r16_src(InstructionData_new, "HL"), "A"))
      [] byte = 59 -> instr(byte, "dec sp", 2, "dec_r16", r16_dst(InstructionData_new, "SP"))
      [] byte = 60 -> instr(byte, "inc a", 1, "inc_r8", r8_dst(InstructionData_new, "A"))
      [] byte = 61 -> instr(byte, "dec a", 1, "dec_r8", r8_dst(InstructionData_new, "A"))
      [] byte = 62 -> instr(byte, "ld a, d8", 2, "ld_r8_imm8", r8_dst(InstructionData_new, "A"))
      [] byte = 63 -> instr(byte, "ccf", 1, "ccf", InstructionData_new)
      [] byte = 64 -> instr(byte, "ld b, b", 1, "ld_r8_r8", r8_dst(r8_src(InstructionData_new, "B"), "B"))
      [] byte = 65 -> instr(byte, "ld b, c", 1, "ld_r8_r8", r8_dst(r8_src(InstructionData_new, "C"), "B"))
      [] byte = 66 -> instr(byte, "ld b, d", 1, "ld_r8_r8", r8_dst(r8_src(InstructionData_new, "D"), "B"))
      [] byte = 67 -> instr(byte, "ld b, e", 1, "ld_r8_r8", r8_dst(r8_src(InstructionData_new, "E"), "B"))
      [] byte = 68 -> instr(byte, "ld b, h", 1, "ld_r8_r8", r8_dst(r8_src(InstructionData_new, "H"), "B"))
      [] byte = 69 -> instr(byte, "ld b, l", 1, "ld_r8_r8", r8_dst(r8_src(InstructionData_new, "L"), "B"))
      [] byte = 70 -> instr(byte, "ld b, (hl)", 2, "ld_r8_indir_r16", r8_dst(r16_src(InstructionData_new, "HL"), "B"))
      [] byte = 71 -> instr(byte, "ld b, a", 1, "ld_r8_r8", r8_dst(r8_src(InstructionData_new, "A"), "B"))
      [] byte = 72 -> instr(byte, "ld c, b", 1, "ld_r8_r8", r8_dst(r8_src(InstructionData_new, "B"), "C"))
      [] byte = 73 -> instr(byte, "ld c, c", 1, "ld_r8_r8", r8_dst(r8_src(InstructionData_new, "C"), "C"))
      [] byte = 74 -> instr(byte, "ld c, d", 1, "ld_r8_r8", r8_dst(r8_src(InstructionData_new, "D"), "C"))
      [] byte = 75 -> instr(byte, "ld c, e", 1, "ld_r8_r8", r8_dst(r8_src(InstructionData_new, "E"), "C"))
      [] byte = 76 -> instr(byte, "ld c, h", 1, "ld_r8_r8", r8_dst(r8_src(InstructionData_new, "H"), "C"))
      [] byte = 77 -> instr(byte, "ld c, l", 1, "ld_r8_r8", r8_dst(r8_src(InstructionData_new, "L"), "C"))
      [] byte = 78 -> instr(byte, "ld c, (hl)", 2, "ld_r8_indir_r16", r8_dst(r16_src(InstructionData_new, "HL"), "C"))
      [] byte = 79 -> instr(byte, "ld c, a", 1, "ld_r8_r8", r8_dst(r8_src(InstructionData_new, "A"), "C"))
      [] byte = 80 -> instr(byte, "ld d, b", 1, "ld_r8_r8", r8_dst(r8_src(InstructionData_new, "B"), "D"))
      [] byte = 81 -> instr(byte, "ld d, c", 1, "ld_r8_r8", r8_dst(r8_src(InstructionData_new, "C"), "D"))
      [] byte = 82 -> instr(byte, "ld d, d", 1, "ld_r8_r8", r8_dst(r8_src(InstructionData_new, "D"), "D"))
      [] byte = 83 -> instr(byte, "ld d, e", 1, "ld_r8_r8", r8_dst(r8_src(InstructionData_new, "E"), "D"))
      [] byte = 84 -> instr(byte, "ld d, h", 1, "ld_r8_r8", r8_dst(r8_src(InstructionData_new, "H"), "D"))
      [] byte = 85 -> instr(byte, "ld d, l", 1, "ld_r8_r8", r8_dst(r8_src(InstructionData_new, "L"), "D"))
      [] byte = 86 -> instr(byte, "ld d, (hl)", 2, "ld_r8_indir_r16", r8_dst(r16_src(InstructionData_new, "HL"), "D"))
      [] byte = 87 -> instr(byte, "ld d, a", 1, "ld_r8_r8", r8_dst(r8_src(InstructionData_new, "A"), "D"))
      [] byte = 88 -> instr(byte, "ld e, b", 1, "ld_r8_r8", r8_dst(r8_src(InstructionData_new, "B"), "E"))
      [] byte = 89 -> instr(byte, "ld e, c", 1, "ld_r8_r8", r8_dst(r8_src(InstructionData_new, "C"), "E"))
      [] byte = 90 -> instr(byte, "ld e, d", 1, "ld_r8_r8", r8_dst(r8_src(InstructionData_new, "D"), "E"))
      [] byte = 91 -> instr(byte, "ld e, e", 1, "ld_r8_r8", r8_dst(r8_src(InstructionData_new, "E"), "E"))
      [] byte = 92 -> instr(byte, "ld e, h", 1, "ld_r8_r8", r8_dst(r8_src(InstructionData_new, "H"), "E"))
      [] byte = 93 -> instr(byte, "ld e, l", 1, "ld_r8_r8", r8_dst(r8_src(InstructionData_new, "L"), "E"))
      [] byte = 94 -> instr(byte, "ld e, (hl)", 2, "ld_r8_indir_r16", r8_dst(r16_src(InstructionData_new, "HL"), "E"))
      [] byte = 95 -> instr(byte, "ld e, a", 1, "ld_r8_r8", r8_dst(r8_src(InstructionData_new, "A"), "E"))
      [] byte = 96 -> instr(byte, "ld h, b", 1, "ld_r8_r8", r8_dst(r8_src(InstructionData_new, "B"), "H"))
      [] byte = 97 -> instr(byte, "ld h, c", 1, "ld_r8_r8", r8_dst(r8_src(InstructionData_new, "C"), "H"))
      [] byte = 98 -> instr(byte, "ld h, d", 1, "ld_r8_r8", r8_dst(r8_src(InstructionData_new, "D"), "H"))
      [] byte = 99 -> instr(byte, "ld h, e", 1, "ld_r8_r8", r8_dst(r8_src(InstructionData_new, "E"), "H"))
      [] byte = 100 -> instr(byte, "ld h, h", 1, "ld_r8_r8", r8_dst(r8_src(InstructionData_new, "H"), "H"))
      [] byte = 101 -> instr(byte, "ld h, l", 1, "ld_r8_r8", r8_dst(r8_src(InstructionData_new, "L"), "H"))
      [] byte = 102 -> instr(byte, "ld h, (hl)", 2, "ld_r8_indir_r16", r8_dst(r16_src(InstructionData_new, "HL"), "H"))
      [] byte = 103 -> instr(byte, "ld h, a", 1, "ld_r8_r8", r8_dst(r8_src(InstructionData_new, "A"), "H"))
      [] byte = 104 -> instr(byte, "ld l, b", 1, "ld_r8_r8", r8_dst(r8_src(InstructionData_new, "B"), "L"))
      [] byte = 105 -> instr(byte, "ld l, c", 1, "ld_r8_r8", r8_dst(r8_src(InstructionData_new, "C"), "L"))
      [] byte = 106 -> instr(byte, "ld l, d", 1, "ld_r8_r8", r8_dst(r8_src(InstructionData_new, "D"), "L"))
      [] byte = 107 -> instr(byte, "ld l, e", 1, "ld_r8_r8", r8_dst(r8_src(InstructionData_new, "E"), "L"))
      [] byte = 108 -> instr(byte, "ld l, h", 1, "ld_r8_r8", r8_dst(r8_src(InstructionData_new, "H"), "L"))
      [] byte = 109 -> instr(byte, "ld l, l", 1, "ld_r8_r8", r8_dst(r8_src(InstructionData_new, "L"), "L"))
      [] byte = 110 -> instr(byte, "ld l, (hl)", 2, "ld_r8_indir_r16", r8_dst(r16_src(InstructionData_new, "HL"), "L"))
      [] byte = 111 -> instr(byte, "ld l, a", 1, "ld_r8_r8", r8_dst(r8_src(InstructionData_new, "A"), "L"))
      [] byte = 112 -> instr(byte, "ld (hl) b", 2, "ld_indir_r16_r8", r8_src(r16_dst(InstructionData_new, "HL"), "B"))
      [] byte = 113 -> instr(byte, "ld (hl) c", 2, "ld_indir_r16_r8", r8_src(r16_dst(InstructionData_new, "HL"), "C"))
      [] byte = 114 -> instr(byte, "ld (hl) d", 2, "ld_indir_r16_r8", r8_src(r16_dst(InstructionData_new, "HL"), "D"))
      [] byte = 115 -> instr(byte, "ld (hl) e", 2, "ld_indir_r16_r8", r8_src(r16_dst(InstructionData_new, "HL"), "E"))
      [] byte = 116 -> instr(byte, "ld (hl) h", 2, "ld_indir_r16_r8", r8_src(r16_dst(InstructionData_new, "HL"), "H"))
      [] byte = 117 -> instr(byte, "ld (hl) l", 2, "ld_indir_r16_r8", r8_src(r16_dst(InstructionData_new, "HL"), "L"))
      [] byte = 118 -> None
      [] byte = 119 -> instr(byte, "ld (hl) a", 2, "ld_indir_r16_r8", r8_src(r16_dst(InstructionData_new, "HL"), "A"))
      [] byte = 120 -> instr(byte, "ld a b", 1, "ld_r8_r8", r8_src(r8_dst(InstructionData_new, "A"), "B"))
      [] byte = 121 -> instr(byte, "ld a c", 1, "ld_r8_r8", r8_src(r8_dst(InstructionData_new, "A"), "C"))
      [] byte = 122 -> instr(byte, "ld a d", 1, "ld_r8_r8", r8_src(r8_dst(InstructionData_new, "A"), "D"))
      [] byte = 123 -> instr(byte, "ld a e", 1, "ld_r8_r8", r8_src(r8_dst(InstructionData_new, "A"), "E"))
      [] byte = 124 -> instr(byte, "ld a h", 1, "ld_r8_r8", r8_src(r8_dst(InstructionData_new, "A"), "H"))
      [] byte = 125 -> instr(byte, "ld a l", 1, "ld_r8_r8", r8_src(r8_dst(InstructionData_new, "A"), "L"))
      [] byte = 126 -> instr(byte, "ld a (hl)", 2, "ld_r8_indir_r16", r16_src(r8_dst(InstructionData_new, "A"), "HL"))
      [] byte = 127 -> instr(byte, "ld a a", 1, "ld_r8_r8", r8_src(r8_dst(InstructionData_new, "A"), "A"))
      [] byte = 128 -> instr(byte, "add a, b", 1, "add_r8", r8_src(InstructionData_new, "B"))
      [] byte = 129 -> instr(byte, "add a, c", 1, "add_r8", r8_src(InstructionData_new, "C"))
      [] byte = 130 -> instr(byte, "add a, d", 1, "add_r8", r8_src(InstructionData_new, "D"))
      [] byte = 131 -> instr(byte, "add a, e", 1, "add_r8", r8_src(InstructionData_new, "E"))
      [] byte = 132 -> instr(byte, "add a, h", 1, "add_r8", r8_src(InstructionData_new, "H"))
      [] byte = 133 -> instr(byte, "add a, l", 1, "add_r8", r8_src(InstructionData_new, "L"))
      [] byte = 134 -> instr(byte, "add a, hl", 2, "add_indir_r16", r16_src(InstructionData_new, "HL"))
      [] byte = 135 -> instr(byte, "add a, a", 1, "add_r8", r8_src(InstructionData_new, "A"))
      [] byte = 136 -> instr(byte, "adc a, b", 1, "adc_r8", r8_src(InstructionData_new, "B"))
      [] byte = 137 -> instr(byte, "adc a, c", 1, "adc_r8", r8_src(InstructionData_new, "C"))
      [] byte = 138 -> instr(byte, "adc a, d", 1, "adc_r8", r8_src(InstructionData_new, "D"))
      [] byte = 139 -> instr(byte, "adc a, e", 1, "adc_r8", r8_src(InstructionData_new, "E"))
      [] byte = 140 -> instr(byte, "adc a, h", 1, "adc_r8", r8_src(InstructionData_new, "H"))
      [] byte = 141 -> instr(byte, "adc a, l", 1, "adc_r8", r8_src(InstructionData_new, "L"))
      [] byte = 142 -> instr(byte, "adc a, hl", 2, "adc_indir_r16", r16_src(InstructionData_new, "HL"))
      [] byte = 143 -> instr(byte, "adc a, a", 1, "adc_r8", r8_src(InstructionData_new, "A"))
      [] byte = 144 -> instr(byte, "sub a, b", 1, "sub_r8", r8_src(InstructionData_new, "B"))
      [] byte = 145 -> instr(byte, "sub a, c", 1, "sub_r8", r8_src(InstructionData_new, "C"))
      [] byte = 146 -> instr(byte, "sub a, d", 1, "sub_r8", r8_src(InstructionData_new, "D"))
      [] byte = 147 -> instr(byte, "sub a, e", 1, "sub_r8", r8_src(InstructionData_new, "E"))
      [] byte = 148 -> instr(byte, "sub a, h", 1, "sub_r8", r8_src(InstructionData_new, "H"))
      [] byte = 149 -> instr(byte, "sub a, l", 1, "sub_r8", r8_src(InstructionData_new, "L"))
      [] byte = 150 -> instr(byte, "sub a, hl", 2, "sub_indir_r16", r16_src(InstructionData_new, "HL"))
      [] byte = 151 -> instr(byte, "sub a, a", 1, "sub_r8", r8_src(InstructionData_new, "A"))
      [] byte = 152 -> instr(byte, "sbc a, b", 1, "sbc_r8", r8_src(InstructionData_new, "B"))
      [] byte = 153 -> instr(byte, "sbc a, c", 1, "sbc_r8", r8_src(InstructionData_new, "C"))
      [] byte = 154 -> instr(byte, "sbc a, d", 1, "sbc_r8", r8_src(InstructionData_new, "D"))
      [] byte = 155 -> instr(byte, "sbc a, e", 1, "sbc_r8", r8_src(InstructionData_new, "E"))
      [] byte = 156 -> instr(byte, "sbc a, h", 1, "sbc_r8", r8_src(InstructionData_new, "H"))
      [] byte = 157 -> instr(byte, "sbc a, l", 1, "sbc_r8", r8_src(InstructionData_new, "L"))
      [] byte = 158 -> instr(byte, "sbc a, hl", 2, "sbc_indir_r16", r16_src(InstructionData_new, "HL"))
      [] byte = 159 -> instr(byte, "sbc a, a", 1, "sbc_r8", r8_src(InstructionData_new, "A"))
      [] byte = 160 -> instr(byte, "and b", 1, "and_r8", r8_src(InstructionData_new, "B"))
      [] byte = 161 -> instr(byte, "and c", 1, "and_r8", r8_src(InstructionData_new, "C"))
      [] byte = 162 -> instr(byte, "and d", 1, "and_r8", r8_src(InstructionData_new, "D"))
      [] byte = 163 -> instr(byte, "and e", 1, "and_r8", r8_src(InstructionData_new, "E"))
      [] byte = 164 -> instr(byte, "and h", 1, "and_r8", r8_src(InstructionData_new, "H"))
      [] byte = 165 -> instr(byte, "and l", 1, "and_r8", r8_src(InstructionData_new, "H"))
      [] byte = 166 -> instr(byte, "and hl", 2, "and_indir_r16", r16_src(InstructionData_new, "HL"))
      [] byte = 167 -> instr(byte, "and a", 1, "and_r8", r8_src(InstructionData_new, "A"))
      [] byte = 168 -> instr(byte, "xor b", 1, "xor_r8", r8_src(InstructionData_new, "B"))
      [] byte = 169 -> instr(byte, "xor c", 1, "xor_r8", r8_src(InstructionData_new, "C"))
      [] byte = 170 -> instr(byte, "xor d", 1, "xor_r8", r8_src(InstructionData_new, "D"))
      [] byte = 171 -> instr(byte, "xor e", 1, "xor_r8", r8_src(InstructionData_new, "E"))
      [] byte = 172 -> instr(byte, "xor h", 1, "xor_r8", r8_src(InstructionData_new, "H"))
      [] byte = 173 -> instr(byte, "xor l", 1, "xor_r8", r8_src(InstructionData_new, "H"))
      [] byte = 174 -> instr(byte, "xor hl", 2, "xor_indir_r16", r16_src(InstructionData_new, "HL"))
      [] byte = 175 -> instr(byte, "xor a", 1, "xor_r8", r8_src(InstructionData_new, "A"))
      [] byte = 176 -> instr(byte, "or b", 1, "or_r8", r8_src(InstructionData_new, "B"))
      [] byte = 177 -> instr(byte, "or c", 1, "or_r8", r8_src(InstructionData_new, "C"))
      [] byte = 178 -> instr(byte, "or d", 1, "or_r8", r8_src(InstructionData_new, "D"))
      [] byte = 179 -> instr(byte, "or e", 1, "or_r8", r8_src(InstructionData_new, "E"))
      [] byte = 180 -> instr(byte, "or h", 1, "or_r8", r8_src(InstructionData_new, "H"))
      [] byte = 181 -> instr(byte, "or l", 1, "or_r8", r8_src(InstructionData_new, "H"))
      [] byte = 182 -> instr(byte, "or hl", 2, "or_indir_r16", r16_src(InstructionData_new, "HL"))
      [] byte = 183 -> instr(byte, "or a", 1, "or_r8", r8_src(InstructionData_new, "A"))
      [] byte = 184 -> instr(byte, "cp b", 1, "cp_r8", r8_src(InstructionData_new, "B"))
      [] byte = 185 -> instr(byte, "cp c", 1, "cp_r8", r8_src(InstructionData_new, "C"))
      [] byte = 186 -> instr(byte, "cp d", 1, "cp_r8", r8_src(InstructionData_new, "D"))
      [] byte = 187 -> instr(byte, "cp e", 1, "cp_r8", r8_src(InstructionData_new, "E"))
      [] byte = 188 -> instr(byte, "cp h", 1, "cp_r8", r8_src(InstructionData_new, "H"))
      [] byte = 189 -> instr(byte, "cp l", 1, "cp_r8", r8_src(InstructionData_new, "L"))
      [] byte = 190 -> instr(byte, "cp hl", 2, "cp_indir_r16", r16_src(InstructionData_new, "HL"))
      [] byte = 191 -> instr(byte, "cp a", 1, "cp_r8", r8_src(InstructionData_new, "A"))
      [] byte = 192 -> instr(byte, "ret nz", 5, "ret_conditional", with_flags(InstructionData_new, ZERO_FLAG, 0))
      [] byte = 193 -> instr(byte, "pop bc", 3, "pop_r16", r16_dst(InstructionData_new, "BC"))
      [] byte = 194 -> instr(byte, "jp nz, a16", 4, "jump_imm16", with_flags(InstructionData_new, ZERO_FLAG, 0))
      [] byte = 195 -> instr(byte, "jp a16", 4, "jump_imm16", with_flags(InstructionData_new, 0, 0))
      [] byte = 196 -> instr(byte, "call nz, a16", 6, "call", with_flags(InstructionData_new, ZERO_FLAG, 0))
      [] byte = 197 -> instr(byte, "push bc", 4, "push_r16", r16_src(InstructionData_new, "BC"))
      [] byte = 198 -> instr(byte, "add a, d8", 2, "add_imm8", InstructionData_new)
      [] byte = 199 -> instr(byte, "rst 0", 4, "rst_n", rst_code(InstructionData_new, 0))
      [] byte = 200 -> instr(byte, "ret z", 5, "ret_conditional", with_flags(InstructionData_new, ZERO_FLAG, ZERO_FLAG))
      [] byte = 201 -> instr(byte, "ret", 4, "ret", InstructionData_new)
      [] byte = 202 -> instr(byte, "jp z, a16", 4, "jump_imm16", with_flags(InstructionData_new, ZERO_FLAG, ZERO_FLAG))
      [] byte = 203 -> None
      [] byte = 204 -> instr(byte, "call z, a16", 6, "call", with_flags(InstructionData_new, ZERO_FLAG, ZERO_FLAG))
      [] byte = 205 -> instr(byte, "call a16", 6, "call", with_flags(InstructionData_new, 0, 0))
      [] byte = 206 -> instr(byte, "adc a, d8", 2, "adc_imm8", InstructionData_new)
      [] byte = 207 -> instr(byte, "rst 1", 4, "rst_n", rst_code(InstructionData_new, 8))
      [] byte = 208 -> instr(byte, "ret nc", 5, "ret_conditional", with_flags(InstructionData_new, CARRY_FLAG, 0))
      [] byte = 209 -> instr(byte, "pop de", 3, "pop_r16", r16_dst(InstructionData_new, "DE"))
      [] byte = 210 -> instr(byte, "jp nc, a16", 4, "jump_imm16", with_flags(InstructionData_new, CARRY_FLAG, 0))
      [] byte = 211 -> None
      [] byte = 212 -> instr(byte, "call nc, a16", 6, "call", with_flags(InstructionData_new, CARRY_FLAG, 0))
      [] byte = 213 -> instr(byte, "push de", 4, "push_r16", r16_src(InstructionData_new, "DE"))
      [] byte = 214 -> instr(byte, "sub d8", 2, "sub_imm8", InstructionData_new)
      [] byte = 215 -> instr(byte, "rst 2", 4, "rst_n", rst_code(InstructionData_new, 16))
      [] byte = 216 -> instr(byte, "ret c", 5, "ret_conditional", with_flags(InstructionData_new, CARRY_FLAG, CARRY_FLAG))
      [] byte = 217 -> None
      [] byte = 218 -> instr(byte, "jp c, a16", 4, "jump_imm16", with_flags(InstructionData_new, CARRY_FLAG, CARRY_FLAG))
      [] byte = 219 -> None
      [] byte = 220 -> instr(byte, "call c, a16", 6, "call", with_flags(InstructionData_new, CARRY_FLAG, CARRY_FLAG))
      [] byte = 221 -> None
      [] byte = 222 -> instr(byte, "sbc d8", 2, "sbc_imm8", InstructionData_new)
      [] byte = 223 -> instr(byte, "rst 3", 4, "rst_n", rst_code(InstructionData_new, 24))
      [] byte = 224 -> instr(byte, "ld (a8) a", 3, "ld_ff00_imm8_r8", r8_src(InstructionData_new, "A"))
      [] byte = 225 -> instr(byte, "pop hl", 3, "pop_r16", r16_dst(InstructionData_new, "HL"))
      [] byte = 226 -> instr(byte, "ld (c) a", 2, "ld_ff00_indir_r8_r8", r8_dst(r8_src(InstructionData_new, "A"), "C"))
      [] byte = 227 -> None
      [] byte = 228 -> None
      [] byte = 229 -> instr(byte, "push hl", 4, "push_r16", r16_src(InstructionData_new, "HL"))
      [] byte = 230 -> instr(byte, "and d8", 2, "and_imm8", InstructionData_new)
      [] byte = 231 -> instr(byte, "rst 4", 4, "rst_n", rst_code(InstructionData_new, 32))
      [] byte = 232 -> None
      [] byte = 233 -> instr(byte, "jp hl", 1, "jump_r16", r16_src(InstructionData_new, "HL"))
      [] byte = 234 -> instr(byte, "ld (a16), a", 4, "ld_indir_imm16_r8", r8_src(InstructionData_new, "A"))
      [] byte = 235 -> None
      [] byte = 236 -> None
      [] byte = 237 -> None
      [] byte = 238 -> instr(byte, "xor d8", 2, "xor_imm8", InstructionData_new)
      [] byte = 239 -> instr(byte, "rst 5", 4, "rst_n", rst_code(InstructionData_new, 40))
      [] byte = 240 -> instr(byte, "ld a, (a8)", 3, "ld_ff00_r8_imm8", r8_dst(InstructionData_new, "A"))
      [] byte = 241 -> instr(byte, "pop af", 3, "pop_r16", r16_dst(InstructionData_new, "AF"))
      [] byte = 242 -> instr(byte, "ld a, (c)", 2, "ld_ff00_r8_indir_r8", r8_dst(r8_src(InstructionData_new, "C"), "A"))
      [] byte = 243 -> instr(byte, "di", 1, "di", InstructionData_new)
      [] byte = 244 -> None
      [] byte = 245 -> instr(byte, "push af", 4, "push_r16", r16_src(InstructionData_new, "AF"))
      [] byte = 246 -> instr(byte, "or d8", 2, "or_imm8", InstructionData_new)
      [] byte = 247 -> instr(byte, "rst 6", 4, "rst_n", rst_code(InstructionData_new, 48))
      [] byte = 248 -> None
      [] byte = 249 -> instr(byte, "ld hl, sp", 2, "ld_r16_r16", r16_dst(r16_src(InstructionData_new, "SP"), "HL"))
      [] byte = 250 -> instr(byte, "ld a, (a16)", 4, "ld_r8_indir_imm16", r8_dst(InstructionData_new, "A"))
      [] byte = 251 -> instr(byte, "ei", 1, "ei", InstructionData_new)
      [] byte = 252 -> None
      [] byte = 253 -> None
      [] byte = 254 -> instr(byte, "cp d8", 1, "cp_imm8", InstructionData_new)
      [] byte = 255 -> instr(byte, "rst 7", 4, "rst_n", rst_code(InstructionData_new, 56))

\* Instruction::from_byte
\* A faulty from_byte: every instruction of the unprefixed table costs one cycle.
from_byte_one_cycle(byte, prefixed) ==
    IF prefixed THEN from_byte_prefixed(byte)
    ELSE LET instruction == from_byte_not_prefixed(byte)
         IN  IF instruction.some THEN [instruction EXCEPT !.cycles = 1] ELSE instruction

from_byte(byte, prefixed) ==
    IF prefixed THEN from_byte_prefixed(byte) ELSE from_byte_not_prefixed(byte)

-----------------------------------------------------------------------------
(* instructions.rs: the executors. Each takes the state s and the operand  *)
(* descriptor and gives the state after.                                   *)

check_for_half_carry_8bit(lhs, rhs) == (lhs % 16) + (rhs % 16) > 15

\* (F & mask) == expected
condition_holds(regs, additional) ==
    BitAnd(get_flags(regs), unwrap(additional.flag_mask)) = unwrap(additional.flag_expected)

\* A faulty no_op: it clears the flags on its way.
no_op_clears_flags(s, additional) ==
    [s EXCEPT !.registers = write_r8(inc_pc(s.registers, 1), "F", 0)]

no_op(s, additional) == [s EXCEPT !.registers = inc_pc(s.registers, 1)]

jump_r16(s, additional) ==
    LET r1 == inc_pc(s.registers, 1)
        target_address == read_r16(r1, unwrap(additional.r16_src))
    IN  [s EXCEPT !.registers = set_pc(r1, target_address)]

jump_imm16(s, additional) ==
    LET r1 == inc_pc(s.registers, 1)
        target_address == read_u16(s.memory, get_pc(r1))
    IN  IF condition_holds(r1, additional)
        THEN IF target_address = PANIC THEN Panic([s EXCEPT !.registers = r1])
             ELSE [s EXCEPT !.registers = set_pc(r1, target_address)]
        ELSE [s EXCEPT !.registers = inc_pc(r1, 2), !.memory.cpu_cycles = 3]

\* A faulty jump_rel_imm8: the operand is added as an unsigned byte.
jump_rel_imm8_unsigned(s, additional) ==
    LET r1 == inc_pc(s.registers, 1)
        rel == read_u8(s.memory, get_pc(r1))
        r2 == inc_pc(r1, 1)
    IN  IF condition_holds(r1, additional)
        THEN IF rel = PANIC THEN Panic([s EXCEPT !.registers = r1])
             ELSE [s EXCEPT !.registers = set_pc(r2, wrapping_add16(get_pc(r2), rel))]
        ELSE [s EXCEPT !.registers = inc_pc(r1, 1), !.memory.cpu_cycles = 2]

jump_rel_imm8(s, additional) ==
    LET r1 == inc_pc(s.registers, 1)
        rel == read_u8(s.memory, get_pc(r1))
        r2 == inc_pc(r1, 1)
        neg == rel >= 128
        pc == get_pc(r2)
        new_pc == IF neg THEN wrapping_sub16(pc, BitNot8(rel) + 1)
                  ELSE wrapping_add16(pc, rel)
    IN  IF condition_holds(r1, additional)
        THEN IF rel = PANIC THEN Panic([s EXCEPT !.registers = r1])
             ELSE [s EXCEPT !.registers = set_pc(r2, new_pc)]
        ELSE [s EXCEPT !.registers = inc_pc(r1, 1), !.memory.cpu_cycles = 2]

ld_r8_r8(s, additional) ==
    LET r1 == inc_pc(s.registers, 1)
        value == read_r8(r1, unwrap(additional.r8_src))
    IN  [s EXCEPT !.registers = write_r8(r1, unwrap(additional.r8_dst), value)]

ld_r8_indir_r16(s, additional) ==
    LET r1 == inc_pc(s.registers, 1)
        address == read_r16(r1, unwrap(additional.r16_src))
        value == read_u8(s.memory, address)
    IN  IF value = PANIC THEN Panic([s EXCEPT !.registers = r1])
        ELSE [s EXCEPT !.registers = write_r8(r1, unwrap(additional.r8_dst), value)]

ld_r8_imm8(s, additional) ==
    LET r1 == inc_pc(s.registers, 1)
        value == read_u8(s.memory, get_pc(r1))
        r2 == inc_pc(r1, 1)
    IN  IF value = PANIC THEN Panic([s EXCEPT !.registers = r1])
        ELSE [s EXCEPT !.registers = write_r8(r2, unwrap(additional.r8_dst), value)]

ld_r16_r16(s, additional) ==
    LET r1 == inc_pc(s.registers, 1)
        value == read_r16(r1, unwrap(additional.r16_src))
    IN  [s EXCEPT !.registers = write_r16(r1, unwrap(additional.r16_dst), value)]

ld_r16_imm16(s, additional) ==
    LET r1 == inc_pc(s.registers, 1)
        value == read_u16(s.memory, get_pc(r1))
        r2 == inc_pc(r1, 2)
    IN  IF value = PANIC THEN Panic([s EXCEPT !.registers = r1])
        ELSE [s EXCEPT !.registers = write_r16(r2, unwrap(additional.r16_dst), value)]

ld_indir_r16_r8(s, additional) ==
    LET r1 == inc_pc(s.registers, 1)
        value == read_r8(r1, unwrap(additional.r8_src))
        address == read_r16(r1, unwrap(additional.r16_dst))
    IN  write_u8([s EXCEPT !.registers = r1], address, value)

ldi_indir_r16_r8(s, additional) ==
    LET r1 == inc_pc(s.registers, 1)
        value == read_r8(r1, unwrap(additional.r8_src))
        address == read_r16(r1, unwrap(additional.r16_dst))
        s1 == write_u8([s EXCEPT !.registers = r1], address, value)
    IN  IF s1.panicked THEN s1
        ELSE [s1 EXCEPT !.registers =
                 write_r16(r1, unwrap(additional.r16_dst), wrapping_add16(address, 1))]

ldd_indir_r16_r8(s, additional) ==
    LET r1 == inc_pc(s.registers, 1)
        value == read_r8(r1, unwrap(additional.r8_src))
        address == read_r16(r1, unwrap(additional.r16_dst))
        s1 == write_u8([s EXCEPT !.registers = r1], address, value)
    IN  IF s1.panicked THEN s1
        ELSE [s1 EXCEPT !.registers =
                 write_r16(r1, unwrap(additional.r16_dst), wrapping_sub16(address, 1))]

ld_indir_r16_imm8(s, additional) ==
    LET r1 == inc_pc(s.registers, 1)
        value == read_u8(s.memory, get_pc(r1))
        r2 == inc_pc(r1, 1)
        address == read_r16(r2, unwrap(additional.r16_dst))
    IN  IF value = PANIC THEN Panic([s EXCEPT !.registers = r1])
        ELSE write_u8([s EXCEPT !.registers = r2], address, value)

ld_indir_imm16_sp(s, additional) ==
    LET r1 == inc_pc(s.registers, 1)
        value == stack_peek16(r1, s.memory)
        address == read_u16(s.memory, get_pc(r1))
        r2 == inc_pc(r1, 2)
    IN  IF value = PANIC \/ address = PANIC THEN Panic([s EXCEPT !.registers = r1])
        ELSE write_u16([s EXCEPT !.registers = r2], address, value)

ld_ff00_imm8_r8(s, additional) ==
    LET r1 == inc_pc(s.registers, 1)
        imm == read_u8(s.memory, get_pc(r1))
        address == 65280 + imm
        r2 == inc_pc(r1, 1)
        value == read_r8(r2, unwrap(additional.r8_src))
    IN  IF imm = PANIC THEN Panic([s EXCEPT !.registers = r1])
        ELSE write_u8([s EXCEPT !.registers = r2], address, value)

ld_ff00_r8_imm8(s, additional) ==
    LET r1 == inc_pc(s.registers, 1)
        imm == read_u8(s.memory, get_pc(r1))
        address == 65280 + imm
        r2 == inc_pc(r1, 1)
        value == read_u8(s.memory, address)
    IN  IF imm = PANIC THEN Panic([s EXCEPT !.registers = r1])
        ELSE [s EXCEPT !.registers = write_r8(r2, unwrap(additional.r8_dst), value)]

ld_ff00_indir_r8_r8(s, additional) ==
    LET r1 == inc_pc(s.registers, 1)
        value == read_r8(r1, unwrap(additional.r8_src))
        address == 65280 + read_r8(r1, unwrap(additional.r8_dst))
    IN  write_u8([s EXCEPT !.registers = r1], address, value)

ld_ff00_r8_indir_r8(s, additional) ==
    LET r1 == inc_pc(s.registers, 1)
        address == 65280 + read_r8(r1, unwrap(additional.r8_src))
        value == read_u8(s.memory, address)
    IN  [s EXCEPT !.registers = write_r8(r1, unwrap(additional.r8_dst), value)]

ld_indir_imm16_r8(s, additional) ==
    LET r1 == inc_pc(s.registers, 1)
        value == read_r8(r1, unwrap(additional.r8_src))
        address == read_u16(s.memory, get_pc(r1))
        r2 == inc_pc(r1, 2)
    IN  IF address = PANIC THEN Panic([s EXCEPT !.registers = r1])
        ELSE write_u8([s EXCEPT !.registers = r2], address, value)

ld_r8_indir_imm16(s, additional) ==
    LET r1 == inc_pc(s.registers, 1)
        address == read_u16(s.memory, get_pc(r1))
        r2 == inc_pc(r1, 2)
        value == read_u8(s.memory, address)
    IN  IF address = PANIC THEN Panic([s EXCEPT !.registers = r1])
        ELSE IF value = PANIC THEN Panic([s EXCEPT !.registers = r2])
        ELSE [s EXCEPT !.registers = write_r8(r2, unwrap(additional.r8_dst), value)]

ldi_r8_indir_r16(s, additional) ==
    LET r1 == inc_pc(s.registers, 1)
        address == read_r16(r1, unwrap(additional.r16_src))
        value == read_u8(s.memory, address)
        r2 == write_r8(r1, unwrap(additional.r8_dst), value)
        next == Add16(address, 1)
    IN  IF value = PANIC THEN Panic([s EXCEPT !.registers = r1])
        ELSE IF next = PANIC THEN Panic([s EXCEPT !.registers = r2])
        ELSE [s EXCEPT !.registers = write_r16(r2, unwrap(additional.r16_src), next)]

ldd_r8_indir_r16(s, additional) ==
    LET r1 == inc_pc(s.registers, 1)
        address == read_r16(r1, unwrap(additional.r16_src))
        value == read_u8(s.memory, address)
        r2 == write_r8(r1, unwrap(additional.r8_dst), value)
        next == Sub16(address, 1)
    IN  IF value = PANIC THEN Panic([s EXCEPT !.registers = r1])
        ELSE IF next = PANIC THEN Panic([s EXCEPT !.registers = r2])
        ELSE [s EXCEPT !.registers = write_r16(r2, unwrap(additional.r16_src), next)]

and_r8(s, additional) ==
    LET r1 == inc_pc(s.registers, 1)
        result == BitAnd(read_r8(r1, "A"), read_r8(r1, unwrap(additional.r8_src)))
        r2 == write_r8(r1, "A", result)
    IN  [s EXCEPT !.registers = set_flags(r2, {result = 0}, {FALSE}, {TRUE}, {FALSE})]

and_indir_r16(s, additional) ==
    LET r1 == inc_pc(s.registers, 1)
        address == read_r16(r1, unwrap(additional.r16_src))
        value == read_u8(s.memory, address)
        result == BitAnd(read_r8(r1, "A"), value)
        r2 == write_r8(r1, "A", result)
    IN  IF value = PANIC THEN Panic([s EXCEPT !.registers = r1])
        ELSE [s EXCEPT !.registers = set_flags(r2, {result = 0}, {FALSE}, {TRUE}, {FALSE})]

and_imm8(s, additional) ==
    LET r1 == inc_pc(s.registers, 1)
        value == read_u8(s.memory, get_pc(r1))
        result == BitAnd(read_r8(r1, "A"), value)
        r2 == write_r8(r1, "A", result)
    IN  IF value = PANIC THEN Panic([s EXCEPT !.registers = r1])
        ELSE [s EXCEPT !.registers = set_flags(r2, {result = 0}, {FALSE}, {TRUE}, {FALSE})]

ret(s, additional) ==
    LET s1 == [s EXCEPT !.registers = inc_pc(s.registers, 1)]
        popped == stack_pop16(s1)
    IN  IF popped.s.panicked THEN popped.s
        ELSE [popped.s EXCEPT !.registers = set_pc(popped.s.registers, popped.value)]

\* A faulty ret_conditional: the 2-cycle cost is charged to the return that is taken.
ret_conditional_cost_swapped(s, additional) ==
    LET s1 == [s EXCEPT !.registers = inc_pc(s.registers, 1)]
        popped == stack_pop16(s1)
    IN  IF condition_holds(s1.registers, additional)
        THEN IF popped.s.panicked THEN popped.s
             ELSE [popped.s EXCEPT !.registers = set_pc(popped.s.registers, popped.value),
                                   !.memory.cpu_cycles = 2]
        ELSE s1

ret_conditional(s, additional) ==
    LET s1 == [s EXCEPT !.registers = inc_pc(s.registers, 1)]
        popped == stack_pop16(s1)
    IN  IF condition_holds(s1.registers, additional)
        THEN IF popped.s.panicked THEN popped.s
             ELSE [popped.s EXCEPT !.registers = set_pc(popped.s.registers, popped.value)]
        ELSE [s1 EXCEPT !.memory.cpu_cycles = 2]

rst_n(s, additional) ==
    LET s1 == [s EXCEPT !.registers = inc_pc(s.registers, 1)]
        s2 == stack_push16(s1, get_pc(s1.registers))
    IN  IF s2.panicked THEN s2
        ELSE [s2 EXCEPT !.registers = set_pc(s2.registers, unwrap(additional.code))]

push_r16(s, additional) ==
    LET s1 == [s EXCEPT !.registers = inc_pc(s.registers, 1)]
        value == read_r16(s1.registers, unwrap(additional.r16_src))
    IN  stack_push16(s1, value)

pop_r16(s, additional) ==
    LET s1 == [s EXCEPT !.registers = inc_pc(s.registers, 1)]
        popped == stack_pop16(s1)
    IN  IF popped.s.panicked THEN popped.s
        ELSE [popped.s EXCEPT !.registers =
                 write_r16(popped.s.registers, unwrap(additional.r16_dst), popped.value)]

call(s, additional) ==
    LET r1 == inc_pc(s.registers, 1)
        address == read_u16(s.memory, get_pc(r1))
        s2 == [s EXCEPT !.registers = inc_pc(r1, 2)]
        s3 == stack_push16(s2, get_pc(s2.registers))
    IN  IF address = PANIC THEN Panic([s EXCEPT !.registers = r1])
        ELSE IF condition_holds(s2.registers, additional)
        THEN IF s3.panicked THEN s3
             ELSE [s3 EXCEPT !.registers = set_pc(s3.registers, address)]
        ELSE [s2 EXCEPT !.memory.cpu_cycles = 3]

stop(s, additional) == [s EXCEPT !.registers = inc_pc(s.registers, 2)]

xor_r8(s, additional) ==
    LET r1 == inc_pc(s.registers, 1)
        register == unwrap(additional.r8_src)
        result == BitXor(read_r8(r1, "A"), read_r8(r1, register))
        r2 == write_r8(r1, "A", result)
    IN  [s EXCEPT !.registers = set_flags(r2, {result = 0}, {FALSE}, {FALSE}, {FALSE})]

\* u8::overflowing_add and u8::overflowing_sub: <<result, carried>>
overflowing_add(lhs, rhs) == <<(lhs + rhs) % 256, lhs + rhs > 255>>
overflowing_sub(lhs, rhs) == <<(lhs - rhs + 256) % 256, lhs < rhs>>

\* A faulty add_r8: it never reports a half carry.
add_r8_no_half_carry(s, additional) ==
    LET r1 == inc_pc(s.registers, 1)
        a == read_r8(r1, "A")
        value == read_r8(r1, unwrap(additional.r8_src))
        sum == overflowing_add(a, value)
        r2 == set_flags(r1, {sum[1] = 0}, {FALSE}, {FALSE}, {sum[2]})
    IN  [s EXCEPT !.registers = write_r8(r2, "A", sum[1])]

add_r8(s, additional) ==
    LET r1 == inc_pc(s.registers, 1)
        a == read_r8(r1, "A")
        value == read_r8(r1, unwrap(additional.r8_src))
        sum == overflowing_add(a, value)
        r2 == set_flags(r1, {sum[1] = 0}, {FALSE}, {check_for_half_carry_8bit(a, value)},
                        {sum[2]})
    IN  [s EXCEPT !.registers = write_r8(r2, "A", sum[1])]

add_imm8(s, additional) ==
    LET r1 == inc_pc(s.registers, 1)
        a == read_r8(r1, "A")
        value == read_u8(s.memory, get_pc(r1))
        r2 == inc_pc(r1, 1)
        sum == overflowing_add(a, value)
        r3 == set_flags(r2, {sum[1] = 0}, {FALSE}, {check_for_half_carry_8bit(a, value)},
                        {sum[2]})
    IN  IF value = PANIC THEN Panic([s EXCEPT !.registers = r1])
        ELSE [s EXCEPT !.registers = write_r8(r3, "A", sum[1])]

inc_r8(s, additional) ==
    LET r1 == inc_pc(s.registers, 1)
        register == unwrap(additional.r8_dst)
        value == read_r8(r1, register)
        result == wrapping_add8(value, 1)
        r2 == write_r8(r1, register, result)
    IN  [s EXCEPT !.registers =
            set_flags(r2, {result = 0}, {FALSE}, {check_for_half_carry_8bit(value, 1)}, {})]

inc_r16(s, additional) ==
    LET r1 == inc_pc(s.registers, 1)
        register == unwrap(additional.r16_dst)
        value == read_r16(r1, register)
        result == wrapping_add16(value, 1)
    IN  [s EXCEPT !.registers = write_r16(r1, register, result)]

inc_indir_r16(s, additional) ==
    LET r1 == inc_pc(s.registers, 1)
        address == read_r16(r1, unwrap(additional.r16_dst))
        value == read_u8(s.memory, address)
        result == wrapping_add8(value, 1)
        s1 == write_u8([s EXCEPT !.registers = r1], address, result)
    IN  IF value = PANIC THEN Panic([s EXCEPT !.registers = r1])
        ELSE IF s1.panicked THEN s1
        ELSE [s1 EXCEPT !.registers =
                 set_flags(r1, {result = 0}, {FALSE},
                           {check_for_half_carry_8bit(value, 1)}, {})]

sub_r8(s, additional) ==
    LET r1 == inc_pc(s.registers, 1)
        lhs == read_r8(r1, "A")
        rhs == read_r8(r1, unwrap(additional.r8_src))
        diff == overflowing_sub(lhs, rhs)
        r2 == write_r8(r1, "A", diff[1])
    IN  [s EXCEPT !.registers =
            set_flags(r2, {diff[1] = 0}, {TRUE}, {check_for_half_carry_8bit(lhs, rhs)},
                      {diff[2]})]

dec_r8(s, additional) ==
    LET r1 == inc_pc(s.registers, 1)
        register == unwrap(additional.r8_dst)
        value == read_r8(r1, register)
        result == wrapping_sub8(value, 1)
        r2 == write_r8(r1, register, result)
    IN  [s EXCEPT !.registers =
            set_flags(r2, {result = 0}, {TRUE}, {check_for_half_carry_8bit(value, 1)}, {})]

\* A faulty dec_r16: it sets the subtract flag, as the 8-bit decrement does.
dec_r16_sets_flag(s, additional) ==
    LET r1 == inc_pc(s.registers, 1)
        register == unwrap(additional.r16_dst)
        value == read_r16(r1, register)
        result == wrapping_sub16(value, 1)
        r2 == write_r16(r1, register, result)
    IN  [s EXCEPT !.registers = set_flags(r2, {}, {TRUE}, {}, {})]

dec_r16(s, additional) ==
    LET r1 == inc_pc(s.registers, 1)
        register == unwrap(additional.r16_dst)
        value == read_r16(r1, register)
        result == wrapping_sub16(value, 1)
    IN  [s EXCEPT !.registers = write_r16(r1, register, result)]

dec_indir_r16(s, additional) ==
    LET r1 == inc_pc(s.registers, 1)
        address == read_r16(r1, unwrap(additional.r16_dst))
        value == read_u8(s.memory, address)
        result == wrapping_sub8(value, 1)
        s1 == write_u8([s EXCEPT !.registers = r1], address, result)
    IN  IF value = PANIC THEN Panic([s EXCEPT !.registers = r1])
        ELSE IF s1.panicked THEN s1
        ELSE [s1 EXCEPT !.registers =
                 set_flags(r1, {result = 0}, {TRUE},
                           {check_for_half_carry_8bit(value, 1)}, {})]

\* A faulty ext_rl_r8: bit 7 goes round into bit 0, past the carry.
ext_rl_r8_circular(s, additional) ==
    LET r1 == inc_pc(s.registers, 2)
        register == unwrap(additional.r8_dst)
        old == read_r8(r1, register)
        new_carry == BitAnd(old, 128) \div 128 = 1
        value == BitOr((old * 2) % 256, IF new_carry THEN 1 ELSE 0)
        r2 == write_r8(r1, register, value)
    IN  [s EXCEPT !.registers = set_flags(r2, {value = 0}, {FALSE}, {FALSE}, {new_carry})]

\* (value << 1) | carry_flag as u8; the shift drops bit 7
ext_rl_r8(s, additional) ==
    LET r1 == inc_pc(s.registers, 2)
        register == unwrap(additional.r8_dst)
        old == read_r8(r1, register)
        new_carry == BitAnd(old, 128) \div 128 = 1
        value == BitOr((old * 2) % 256, IF carry_flag(r1) THEN 1 ELSE 0)
        r2 == write_r8(r1, register, value)
    IN  [s EXCEPT !.registers = set_flags(r2, {value = 0}, {FALSE}, {FALSE}, {new_carry})]

\* (lower << 4) & upper
ext_swap_r8(s, additional) ==
    LET r1 == inc_pc(s.registers, 2)
        register == unwrap(additional.r8_dst)
        old == read_r8(r1, register)
        lower == BitAnd(old, 15)
        upper == BitAnd(old, 240) \div 16
        value == BitAnd((lower * 16) % 256, upper)
        r2 == write_r8(r1, register, value)
    IN  [s EXCEPT !.registers = set_flags(r2, {value = 0}, {FALSE}, {FALSE}, {FALSE})]

ext_swap_indir_r16(s, additional) ==
    LET r1 == inc_pc(s.registers, 2)
        address == read_r16(r1, unwrap(additional.r16_dst))
        old == read_u8(s.memory, address)
        lower == BitAnd(old, 15)
        upper == BitAnd(old, 240) \div 16
        value == BitAnd((lower * 16) % 256, upper)
        s1 == write_u8([s EXCEPT !.registers = r1], address, value)
    IN  IF old = PANIC THEN Panic([s EXCEPT !.registers = r1])
        ELSE IF s1.panicked THEN s1
        ELSE [s1 EXCEPT !.registers =
                 set_flags(r1, {value = 0}, {FALSE}, {FALSE}, {FALSE})]

xor_indir_r16(s, additional) ==
    LET r1 == inc_pc(s.registers, 1)
        address == read_r16(r1, unwrap(additional.r16_src))
        value == read_u8(s.memory, address)
        result == BitXor(read_r8(r1, "A"), value)
        r2 == write_r8(r1, "A", result)
    IN  IF value = PANIC THEN Panic([s EXCEPT !.registers = r1])
        ELSE [s EXCEPT !.registers = set_flags(r2, {result = 0}, {FALSE}, {FALSE}, {FALSE})]

xor_imm8(s, additional) ==
    LET r1 == inc_pc(s.registers, 1)
        value == read_u8(s.memory, get_pc(r1))
        r2 == inc_pc(r1, 1)
        result == BitXor(read_r8(r2, "A"), value)
        r3 == write_r8(r2, "A", result)
    IN  IF value = PANIC THEN Panic([s EXCEPT !.registers = r1])
        ELSE [s EXCEPT !.registers = set_flags(r3, {result = 0}, {FALSE}, {FALSE}, {FALSE})]

or_r8(s, additional) ==
    LET r1 == inc_pc(s.registers, 1)
        result == BitOr(read_r8(r1, "A"), read_r8(r1, unwrap(additional.r8_src)))
        r2 == write_r8(r1, "A", result)
    IN  [s EXCEPT !.registers = set_flags(r2, {result = 0}, {FALSE}, {FALSE}, {FALSE})]

or_indir_r16(s, additional) ==
    LET r1 == inc_pc(s.registers, 1)
        address == read_r16(r1, unwrap(additional.r16_src))
        value == read_u8(s.memory, address)
        result == BitOr(read_r8(r1, "A"), value)
        r2 == write_r8(r1, "A", result)
    IN  IF value = PANIC THEN Panic([s EXCEPT !.registers = r1])
        ELSE [s EXCEPT !.registers = set_flags(r2, {result = 0}, {FALSE}, {FALSE}, {FALSE})]

or_imm8(s, additional) ==
    LET r1 == inc_pc(s.registers, 1)
        value == read_u8(s.memory, get_pc(r1))
        r2 == inc_pc(r1, 1)
        result == BitOr(read_r8(r2, "A"), value)
        r3 == write_r8(r2, "A", result)
    IN  IF value = PANIC THEN Panic([s EXCEPT !.registers = r1])
        ELSE [s EXCEPT !.registers = set_flags(r3, {result = 0}, {FALSE}, {FALSE}, {FALSE})]

\* A does not change: only the flags are set.
cp_r8(s, additional) ==
    LET r1 == inc_pc(s.registers, 1)
        a == read_r8(r1, "A")
        value == read_r8(r1, unwrap(additional.r8_src))
        diff == overflowing_sub(a, value)
    IN  [s EXCEPT !.registers =
            set_flags(r1, {diff[1] = 0}, {TRUE}, {check_for_half_carry_8bit(a, value)},
                      {diff[2]})]

cp_indir_r16(s, additional) ==
    LET r1 == inc_pc(s.registers, 1)
        a == read_r8(r1, "A")
        address == read_r16(r1, unwrap(additional.r16_src))
        value == read_u8(s.memory, address)
        diff == overflowing_sub(a, value)
    IN  IF value = PANIC THEN Panic([s EXCEPT !.registers = r1])
        ELSE [s EXCEPT !.registers =
                 set_flags(r1, {diff[1] = 0}, {TRUE},
                           {check_for_half_carry_8bit(a, value)}, {diff[2]})]

cp_imm8(s, additional) ==
    LET r1 == inc_pc(s.registers, 1)
        a == read_r8(r1, "A")
        value == read_u8(s.memory, get_pc(r1))
        r2 == inc_pc(r1, 1)
        diff == overflowing_sub(a, value)
    IN  IF value = PANIC THEN Panic([s EXCEPT !.registers = r1])
        ELSE [s EXCEPT !.registers =
                 set_flags(r2, {diff[1] = 0}, {TRUE},
                           {check_for_half_carry_8bit(a, value)}, {diff[2]})]

add_indir_r16(s, additional) ==
    LET r1 == inc_pc(s.registers, 1)
        a == read_r8(r1, "A")
        address == read_r16(r1, unwrap(additional.r16_src))
        value == read_u8(s.memory, address)
        sum == overflowing_add(a, value)
        r2 == set_flags(r1, {sum[1] = 0}, {FALSE}, {check_for_half_carry_8bit(a, value)},
                        {sum[2]})
    IN  IF value = PANIC THEN Panic([s EXCEPT !.registers = r1])
        ELSE [s EXCEPT !.registers = write_r8(r2, "A", sum[1])]

\* (lhs & 0xFF) + (rhs & 0xFF) > 0xFF
check_for_half_carry_16bit(lhs, rhs) == (lhs % 256) + (rhs % 256) > 255

\* u16::overflowing_add: <<result, carry>>
overflowing_add16(lhs, rhs) == <<(lhs + rhs) % 65536, lhs + rhs > 65535>>

\* The result is written to the register the table entry names as src.
add_r16_r16(s, additional) ==
    LET r1 == inc_pc(s.registers, 1)
        src == unwrap(additional.r16_src)
        dst == unwrap(additional.r16_dst)
        lhs == read_r16(r1, src)
        rhs == read_r16(r1, dst)
        sum == overflowing_add16(lhs, rhs)
        r2 == write_r16(r1, src, sum[1])
    IN  [s EXCEPT !.registers =
            set_flags(r2, {}, {FALSE}, {check_for_half_carry_16bit(lhs, rhs)}, {sum[2]})]

\* carry_flag() as u8
carry_u8(regs) == IF carry_flag(regs) THEN 1 ELSE 0

\* value + carry is a u8 addition of its own, before overflowing_add.
adc_r8(s, additional) ==
    LET r1 == inc_pc(s.registers, 1)
        a == read_r8(r1, "A")
        value == read_r8(r1, unwrap(additional.r8_src))
        operand == Add8(value, carry_u8(r1))
        sum == overflowing_add(a, operand)
        r2 == set_flags(r1, {sum[1] = 0}, {FALSE}, {check_for_half_carry_8bit(a, value)},
                        {sum[2]})
    IN  IF operand = PANIC THEN Panic([s EXCEPT !.registers = r1])
        ELSE [s EXCEPT !.registers = write_r8(r2, "A", sum[1])]

\* The half carry is taken from a and the result here.
adc_indir_r16(s, additional) ==
    LET r1 == inc_pc(s.registers, 1)
        a == read_r8(r1, "A")
        address == read_r16(r1, unwrap(additional.r16_src))
        value == read_u8(s.memory, address)
        operand == Add8(value, carry_u8(r1))
        sum == overflowing_add(a, operand)
        r2 == set_flags(r1, {sum[1] = 0}, {FALSE}, {check_for_half_carry_8bit(a, sum[1])},
                        {sum[2]})
    IN  IF value = PANIC \/ operand = PANIC THEN Panic([s EXCEPT !.registers = r1])
        ELSE [s EXCEPT !.registers = write_r8(r2, "A", sum[1])]

adc_imm8(s, additional) ==
    LET r1 == inc_pc(s.registers, 1)
        a == read_r8(r1, "A")
        value == read_u8(s.memory, get_pc(r1))
        r2 == inc_pc(r1, 1)
        operand == Add8(value, carry_u8(r2))
        sum == overflowing_add(a, operand)
        r3 == set_flags(r2, {sum[1] = 0}, {FALSE}, {check_for_half_carry_8bit(a, value)},
                        {sum[2]})
    IN  IF value = PANIC THEN Panic([s EXCEPT !.registers = r1])
        ELSE IF operand = PANIC THEN Panic([s EXCEPT !.registers = r2])
        ELSE [s EXCEPT !.registers = write_r8(r3, "A", sum[1])]

sub_indir_r16(s, additional) ==
    LET r1 == inc_pc(s.registers, 1)
        lhs == read_r8(r1, "A")
        address == read_r16(r1, unwrap(additional.r16_src))
        rhs == read_u8(s.memory, address)
        diff == overflowing_sub(lhs, rhs)
        r2 == write_r8(r1, "A", diff[1])
    IN  IF rhs = PANIC THEN Panic([s EXCEPT !.registers = r1])
        ELSE [s EXCEPT !.registers =
                 set_flags(r2, {diff[1] = 0}, {TRUE},
                           {check_for_half_carry_8bit(lhs, rhs)}, {diff[2]})]

\* PC is advanced once only: the operand is read at PC and PC stays on it.
sub_imm8(s, additional) ==
    LET r1 == inc_pc(s.registers, 1)
        lhs == read_r8(r1, "A")
        address == get_pc(r1)
        rhs == read_u8(s.memory, address)
        diff == overflowing_sub(lhs, rhs)
        r2 == write_r8(r1, "A", diff[1])
    IN  IF rhs = PANIC THEN Panic([s EXCEPT !.registers = r1])
        ELSE [s EXCEPT !.registers =
                 set_flags(r2, {diff[1] = 0}, {TRUE},
                           {check_for_half_carry_8bit(lhs, rhs)}, {diff[2]})]

\* rhs - carry is a u8 subtraction of its own, before overflowing_sub.
sbc_r8(s, additional) ==
    LET r1 == inc_pc(s.registers, 1)
        lhs == read_r8(r1, "A")
        rhs == read_r8(r1, unwrap(additional.r8_src))
        operand == Sub8(rhs, carry_u8(r1))
        diff == overflowing_sub(lhs, operand)
        r2 == write_r8(r1, "A", diff[1])
    IN  IF operand = PANIC THEN Panic([s EXCEPT !.registers = r1])
        ELSE [s EXCEPT !.registers =
                 set_flags(r2, {diff[1] = 0}, {TRUE},
                           {check_for_half_carry_8bit(lhs, rhs)}, {diff[2]})]

sbc_indir_r16(s, additional) ==
    LET r1 == inc_pc(s.registers, 1)
        lhs == read_r8(r1, "A")
        address == read_r16(r1, unwrap(additional.r16_src))
        rhs == read_u8(s.memory, address)
        operand == Sub8(rhs, carry_u8(r1))
        diff == overflowing_sub(lhs, operand)
        r2 == write_r8(r1, "A", diff[1])
    IN  IF rhs = PANIC \/ operand = PANIC THEN Panic([s EXCEPT !.registers = r1])
        ELSE [s EXCEPT !.registers =
                 set_flags(r2, {diff[1] = 0}, {TRUE},
                           {check_for_half_carry_8bit(lhs, rhs)}, {diff[2]})]

\* PC is advanced once only, as in sub_imm8.
sbc_imm8(s, additional) ==
    LET r1 == inc_pc(s.registers, 1)
        lhs == read_r8(r1, "A")
        address == get_pc(r1)
        rhs == read_u8(s.memory, address)
        operand == Sub8(rhs, carry_u8(r1))
        diff == overflowing_sub(lhs, operand)
        r2 == write_r8(r1, "A", diff[1])
    IN  IF rhs = PANIC \/ operand = PANIC THEN Panic([s EXCEPT !.registers = r1])
        ELSE [s EXCEPT !.registers =
                 set_flags(r2, {diff[1] = 0}, {TRUE},
                           {check_for_half_carry_8bit(lhs, rhs)}, {diff[2]})]

\* (value << 1) | new_carry as u8
ext_rlc_r8(s, additional) ==
    LET r1 == inc_pc(s.registers, 2)
        register == unwrap(additional.r8_dst)
        old == read_r8(r1, register)
        new_carry == BitAnd(old, 128) \div 128 = 1
        value == BitOr((old * 2) % 256, IF new_carry THEN 1 ELSE 0)
        r2 == write_r8(r1, register, value)
    IN  [s EXCEPT !.registers = set_flags(r2, {value = 0}, {FALSE}, {FALSE}, {new_carry})]

ext_rlc_indir_r16(s, additional) ==
    LET r1 == inc_pc(s.registers, 2)
        address == read_r16(r1, unwrap(additional.r16_dst))
        old == read_u8(s.memory, address)
        new_carry == BitAnd(old, 128) \div 128 = 1
        value == BitOr((old * 2) % 256, IF new_carry THEN 1 ELSE 0)
        s1 == write_u8([s EXCEPT !.registers = r1], address, value)
    IN  IF old = PANIC THEN Panic([s EXCEPT !.registers = r1])
        ELSE IF s1.panicked THEN s1
        ELSE [s1 EXCEPT !.registers =
                 set_flags(r1, {value = 0}, {FALSE}, {FALSE}, {new_carry})]

\* (value >> 1) | ((new_carry as u8) << 7)
ext_rrc_r8(s, additional) ==
    LET r1 == inc_pc(s.registers, 2)
        register == unwrap(additional.r8_dst)
        old == read_r8(r1, register)
        new_carry == BitAnd(old, 1) = 1
        value == BitOr(old \div 2, (IF new_carry THEN 1 ELSE 0) * 128)
        r2 == write_r8(r1, register, value)
    IN  [s EXCEPT !.registers = set_flags(r2, {value = 0}, {FALSE}, {FALSE}, {new_carry})]

ext_rrc_indir_r16(s, additional) ==
    LET r1 == inc_pc(s.registers, 2)
        address == read_r16(r1, unwrap(additional.r16_dst))
        old == read_u8(s.memory, address)
        new_carry == BitAnd(old, 1) = 1
        value == BitOr(old \div 2, (IF new_carry THEN 1 ELSE 0) * 128)
        s1 == write_u8([s EXCEPT !.registers = r1], address, value)
    IN  IF old = PANIC THEN Panic([s EXCEPT !.registers = r1])
        ELSE IF s1.panicked THEN s1
        ELSE [s1 EXCEPT !.registers =
                 set_flags(r1, {value = 0}, {FALSE}, {FALSE}, {new_carry})]

ext_rl_indir_r16(s, additional) ==
    LET r1 == inc_pc(s.registers, 2)
        address == read_r16(r1, unwrap(additional.r16_dst))
        old == read_u8(s.memory, address)
        new_carry == BitAnd(old, 128) \div 128 = 1
        value == BitOr((old * 2) % 256, IF carry_flag(r1) THEN 1 ELSE 0)
        s1 == write_u8([s EXCEPT !.registers = r1], address, value)
    IN  IF old = PANIC THEN Panic([s EXCEPT !.registers = r1])
        ELSE IF s1.panicked THEN s1
        ELSE [s1 EXCEPT !.registers =
                 set_flags(r1, {value = 0}, {FALSE}, {FALSE}, {new_carry})]

\* (value >> 1) | ((carry_flag as u8) << 7)
ext_rr_r8(s, additional) ==
    LET r1 == inc_pc(s.registers, 2)
        register == unwrap(additional.r8_dst)
        old == read_r8(r1, register)
        new_carry == BitAnd(old, 1) = 1
        value == BitOr(old \div 2, (IF carry_flag(r1) THEN 1 ELSE 0) * 128)
        r2 == write_r8(r1, register, value)
    IN  [s EXCEPT !.registers = set_flags(r2, {value = 0}, {FALSE}, {FALSE}, {new_carry})]

ext_rr_indir_r16(s, additional) ==
    LET r1 == inc_pc(s.registers, 2)
        address == read_r16(r1, unwrap(additional.r16_dst))
        old == read_u8(s.memory, address)
        new_carry == BitAnd(old, 1) = 1
        value == BitOr(old \div 2, (IF carry_flag(r1) THEN 1 ELSE 0) * 128)
        s1 == write_u8([s EXCEPT !.registers = r1], address, value)
    IN  IF old = PANIC THEN Panic([s EXCEPT !.registers = r1])
        ELSE IF s1.panicked THEN s1
        ELSE [s1 EXCEPT !.registers =
                 set_flags(r1, {value = 0}, {FALSE}, {FALSE}, {new_carry})]

\* value << 1; the shift drops bit 7
ext_sla_r8(s, additional) ==
    LET r1 == inc_pc(s.registers, 2)
        register == unwrap(additional.r8_dst)
        old == read_r8(r1, register)
        new_carry == BitAnd(old, 128) \div 128 = 1
        value == (old * 2) % 256
        r2 == write_r8(r1, register, value)
    IN  [s EXCEPT !.registers = set_flags(r2, {value = 0}, {FALSE}, {FALSE}, {new_carry})]

ext_sla_indir_r16(s, additional) ==
    LET r1 == inc_pc(s.registers, 2)
        address == read_r16(r1, unwrap(additional.r16_dst))
        old == read_u8(s.memory, address)
        new_carry == BitAnd(old, 128) \div 128 = 1
        value == (old * 2) % 256
        s1 == write_u8([s EXCEPT !.registers = r1], address, value)
    IN  IF old = PANIC THEN Panic([s EXCEPT !.registers = r1])
        ELSE IF s1.panicked THEN s1
        ELSE [s1 EXCEPT !.registers =
                 set_flags(r1, {value = 0}, {FALSE}, {FALSE}, {new_carry})]

\* (value >> 1) | (value & 0x80)
ext_sra_r8(s, additional) ==
    LET r1 == inc_pc(s.registers, 2)
        register == unwrap(additional.r8_dst)
        old == read_r8(r1, register)
        new_carry == BitAnd(old, 1) = 1
        value == BitOr(old \div 2, BitAnd(old, 128))
        r2 == write_r8(r1, register, value)
    IN  [s EXCEPT !.registers = set_flags(r2, {value = 0}, {FALSE}, {FALSE}, {new_carry})]

ext_sra_indir_r16(s, additional) ==
    LET r1 == inc_pc(s.registers, 2)
        address == read_r16(r1, unwrap(additional.r16_dst))
        old == read_u8(s.memory, address)
        new_carry == BitAnd(old, 1) = 1
        value == BitOr(old \div 2, BitAnd(old, 128))
        s1 == write_u8([s EXCEPT !.registers = r1], address, value)
    IN  IF old = PANIC THEN Panic([s EXCEPT !.registers = r1])
        ELSE IF s1.panicked THEN s1
        ELSE [s1 EXCEPT !.registers =
                 set_flags(r1, {value = 0}, {FALSE}, {FALSE}, {new_carry})]

\* value >> 1
ext_srl_r8(s, additional) ==
    LET r1 == inc_pc(s.registers, 2)
        register == unwrap(additional.r8_dst)
        old == read_r8(r1, register)
        new_carry == BitAnd(old, 1) = 1
        value == old \div 2
        r2 == write_r8(r1, register, value)
    IN  [s EXCEPT !.registers = set_flags(r2, {value = 0}, {FALSE}, {FALSE}, {new_carry})]

ext_srl_indir_r16(s, additional) ==
    LET r1 == inc_pc(s.registers, 2)
        address == read_r16(r1, unwrap(additional.r16_dst))
        old == read_u8(s.memory, address)
        new_carry == BitAnd(old, 1) = 1
        value == old \div 2
        s1 == write_u8([s EXCEPT !.registers = r1], address, value)
    IN  IF old = PANIC THEN Panic([s EXCEPT !.registers = r1])
        ELSE IF s1.panicked THEN s1
        ELSE [s1 EXCEPT !.registers =
                 set_flags(r1, {value = 0}, {FALSE}, {FALSE}, {new_carry})]

\* The accumulator rotates clear the zero flag whatever the result.

rlca(s, additional) ==
    LET r1 == inc_pc(s.registers, 1)
        old == read_r8(r1, "A")
        new_carry == BitAnd(old, 128) \div 128 = 1
        value == BitOr((old * 2) % 256, IF new_carry THEN 1 ELSE 0)
        r2 == write_r8(r1, "A", value)
    IN  [s EXCEPT !.registers = set_flags(r2, {FALSE}, {FALSE}, {FALSE}, {new_carry})]

rla(s, additional) ==
    LET r1 == inc_pc(s.registers, 1)
        old == read_r8(r1, "A")
        new_carry == BitAnd(old, 128) \div 128 = 1
        value == BitOr((old * 2) % 256, IF carry_flag(r1) THEN 1 ELSE 0)
        r2 == write_r8(r1, "A", value)
    IN  [s EXCEPT !.registers = set_flags(r2, {FALSE}, {FALSE}, {FALSE}, {new_carry})]

rrca(s, additional) ==
    LET r1 == inc_pc(s.registers, 1)
        old == read_r8(r1, "A")
        new_carry == BitAnd(old, 1) = 1
        value == BitOr(old \div 2, (IF new_carry THEN 1 ELSE 0) * 128)
        r2 == write_r8(r1, "A", value)
    IN  [s EXCEPT !.registers = set_flags(r2, {FALSE}, {FALSE}, {FALSE}, {new_carry})]

rra(s, additional) ==
    LET r1 == inc_pc(s.registers, 1)
        old == read_r8(r1, "A")
        new_carry == BitAnd(old, 1) = 1
        value == BitOr(old \div 2, (IF carry_flag(r1) THEN 1 ELSE 0) * 128)
        r2 == write_r8(r1, "A", value)
    IN  [s EXCEPT !.registers = set_flags(r2, {FALSE}, {FALSE}, {FALSE}, {new_carry})]

cpl(s, additional) ==
    LET r1 == inc_pc(s.registers, 1)
        r2 == set_flags(r1, {}, {TRUE}, {TRUE}, {})
    IN  [s EXCEPT !.registers = write_r8(r2, "A", BitNot8(read_r8(r2, "A")))]

\* registers.set_ime(..) sets the interrupt master enable, which no step modelled here reads.
di(s, additional) == [s EXCEPT !.registers = inc_pc(s.registers, 1)]

ei(s, additional) == [s EXCEPT !.registers = inc_pc(s.registers, 1)]

scf(s, additional) ==
    LET r1 == inc_pc(s.registers, 1)
    IN  [s EXCEPT !.registers = set_flags(r1, {}, {FALSE}, {FALSE}, {TRUE})]

ccf(s, additional) ==
    LET r1 == inc_pc(s.registers, 1)
        toggled_carry == ~carry_flag(r1)
    IN  [s EXCEPT !.registers = set_flags(r1, {}, {FALSE}, {FALSE}, {toggled_carry})]

\* BIT with the zero flag of a set bit.
ext_bit_r8_inverted(s, additional) ==
    LET r1 == inc_pc(s.registers, 2)
        value == read_r8(r1, unwrap(additional.r8_src))
        bit_pos == unwrap(additional.bit)
        result == (value \div (2 ^ bit_pos)) % 2
    IN  [s EXCEPT !.registers = set_flags(r1, {result = 1}, {FALSE}, {TRUE}, {})]

\* (value >> bit_pos) & 0b1
ext_bit_r8(s, additional) ==
    LET r1 == inc_pc(s.registers, 2)
        value == read_r8(r1, unwrap(additional.r8_src))
        bit_pos == unwrap(additional.bit)
        result == (value \div (2 ^ bit_pos)) % 2
    IN  [s EXCEPT !.registers = set_flags(r1, {result = 0}, {FALSE}, {TRUE}, {})]

ext_bit_indir_r16(s, additional) ==
    LET r1 == inc_pc(s.registers, 2)
        address == read_r16(r1, unwrap(additional.r16_src))
        value == read_u8(s.memory, address)
        selected_bit == 2 ^ unwrap(additional.bit)
    IN  IF value = PANIC THEN Panic([s EXCEPT !.registers = r1])
        ELSE [s EXCEPT !.registers =
                 set_flags(r1, {BitAnd(selected_bit, value) = 0}, {FALSE}, {TRUE}, {})]

\* value & !(1 << bit)
ext_res_bit_r8(s, additional) ==
    LET r1 == inc_pc(s.registers, 2)
        value == read_r8(r1, unwrap(additional.r8_src))
        bit_mask == BitNot8(2 ^ unwrap(additional.bit))
        result == BitAnd(value, bit_mask)
    IN  [s EXCEPT !.registers = write_r8(r1, unwrap(additional.r8_src), result)]

ext_res_bit_indir_r16(s, additional) ==
    LET r1 == inc_pc(s.registers, 2)
        address == read_r16(r1, unwrap(additional.r16_src))
        value == read_u8(s.memory, address)
        bit_mask == BitNot8(2 ^ unwrap(additional.bit))
        result == BitAnd(value, bit_mask)
    IN  IF value = PANIC THEN Panic([s EXCEPT !.registers = r1])
        ELSE write_u8([s EXCEPT !.registers = r1], address, result)

\* value | (1 << bit)
ext_set_bit_r8(s, additional) ==
    LET r1 == inc_pc(s.registers, 2)
        value == read_r8(r1, unwrap(additional.r8_src))
        bit_mask == 2 ^ unwrap(additional.bit)
        result == BitOr(value, bit_mask)
    IN  [s EXCEPT !.registers = write_r8(r1, unwrap(additional.r8_src), result)]

ext_set_bit_indir_r16(s, additional) ==
    LET r1 == inc_pc(s.registers, 2)
        address == read_r16(r1, unwrap(additional.r16_src))
        value == read_u8(s.memory, address)
        bit_mask == 2 ^ unwrap(additional.bit)
        result == BitOr(value, bit_mask)
    IN  IF value = PANIC THEN Panic([s EXCEPT !.registers = r1])
        ELSE write_u8([s EXCEPT !.registers = r1], address, result)

\* (instruction.execute)(registers, memory): the call through the function pointer.
execute(method, s, additional) ==
    CASE method = "no_op" -> no_op(s, additional)
      [] method = "jump_r16" -> jump_r16(s, additional)
      [] method = "jump_imm16" -> jump_imm16(s, additional)
      [] method = "jump_rel_imm8" -> jump_rel_imm8(s, additional)
      [] method = "ld_r8_r8" -> ld_r8_r8(s, additional)
      [] method = "ld_r8_indir_r16" -> ld_r8_indir_r16(s, additional)
      [] method = "ld_r8_imm8" -> ld_r8_imm8(s, additional)
      [] method = "ld_r16_r16" -> ld_r16_r16(s, additional)
      [] method = "ld_r16_imm16" -> ld_r16_imm16(s, additional)
      [] method = "ld_indir_r16_r8" -> ld_indir_r16_r8(s, additional)
      [] method = "ldi_indir_r16_r8" -> ldi_indir_r16_r8(s, additional)
      [] method = "ldd_indir_r16_r8" -> ldd_indir_r16_r8(s, additional)
      [] method = "ld_indir_r16_imm8" -> ld_indir_r16_imm8(s, additional)
      [] method = "ld_indir_imm16_sp" -> ld_indir_imm16_sp(s, additional)
      [] method = "ld_ff00_imm8_r8" -> ld_ff00_imm8_r8(s, additional)
      [] method = "ld_ff00_r8_imm8" -> ld_ff00_r8_imm8(s, additional)
      [] method = "ld_ff00_indir_r8_r8" -> ld_ff00_indir_r8_r8(s, additional)
      [] method = "ld_ff00_r8_indir_r8" -> ld_ff00_r8_indir_r8(s, additional)
      [] method = "ld_indir_imm16_r8" -> ld_indir_imm16_r8(s, additional)
      [] method = "ld_r8_indir_imm16" -> ld_r8_indir_imm16(s, additional)
      [] method = "ldi_r8_indir_r16" -> ldi_r8_indir_r16(s, additional)
      [] method = "ldd_r8_indir_r16" -> ldd_r8_indir_r16(s, additional)
      [] method = "and_r8" -> and_r8(s, additional)
      [] method = "and_indir_r16" -> and_indir_r16(s, additional)
      [] method = "and_imm8" -> and_imm8(s, additional)
      [] method = "ret" -> ret(s, additional)
      [] method = "ret_conditional" -> ret_conditional(s, additional)
      [] method = "rst_n" -> rst_n(s, additional)
      [] method = "push_r16" -> push_r16(s, additional)
      [] method = "pop_r16" -> pop_r16(s, additional)
      [] method = "call" -> call(s, additional)
      [] method = "stop" -> stop(s, additional)
      [] method = "xor_r8" -> xor_r8(s, additional)
      [] method = "add_r8" -> add_r8(s, additional)
      [] method = "add_imm8" -> add_imm8(s, additional)
      [] method = "inc_r8" -> inc_r8(s, additional)
      [] method = "inc_r16" -> inc_r16(s, additional)
      [] method = "inc_indir_r16" -> inc_indir_r16(s, additional)
      [] method = "sub_r8" -> sub_r8(s, additional)
      [] method = "dec_r8" -> dec_r8(s, additional)
      [] method = "dec_r16" -> dec_r16(s, additional)
      [] method = "dec_indir_r16" -> dec_indir_r16(s, additional)
      [] method = "ext_rl_r8" -> ext_rl_r8(s, additional)
      [] method = "ext_swap_r8" -> ext_swap_r8(s, additional)
      [] method = "ext_swap_indir_r16" -> ext_swap_indir_r16(s, additional)
      [] method = "xor_indir_r16" -> xor_indir_r16(s, additional)
      [] method = "xor_imm8" -> xor_imm8(s, additional)
      [] method = "or_r8" -> or_r8(s, additional)
      [] method = "or_indir_r16" -> or_indir_r16(s, additional)
      [] method = "or_imm8" -> or_imm8(s, additional)
      [] method = "cp_r8" -> cp_r8(s, additional)
      [] method = "cp_indir_r16" -> cp_indir_r16(s, additional)
      [] method = "cp_imm8" -> cp_imm8(s, additional)
      [] method = "add_indir_r16" -> add_indir_r16(s, additional)
      [] method = "add_r16_r16" -> add_r16_r16(s, additional)
      [] method = "adc_r8" -> adc_r8(s, additional)
      [] method = "adc_indir_r16" -> adc_indir_r16(s, additional)
      [] method = "adc_imm8" -> adc_imm8(s, additional)
      [] method = "sub_indir_r16" -> sub_indir_r16(s, additional)
      [] method = "sub_imm8" -> sub_imm8(s, additional)
      [] method = "sbc_r8" -> sbc_r8(s, additional)
      [] method = "sbc_indir_r16" -> sbc_indir_r16(s, additional)
      [] method = "sbc_imm8" -> sbc_imm8(s, additional)
      [] method = "ext_rlc_r8" -> ext_rlc_r8(s, additional)
      [] method = "ext_rlc_indir_r16" -> ext_rlc_indir_r16(s, additional)
      [] method = "ext_rrc_r8" -> ext_rrc_r8(s, additional)
      [] method = "ext_rrc_indir_r16" -> ext_rrc_indir_r16(s, additional)
      [] method = "ext_rl_indir_r16" -> ext_rl_indir_r16(s, additional)
      [] method = "ext_rr_r8" -> ext_rr_r8(s, additional)
      [] method = "ext_rr_indir_r16" -> ext_rr_indir_r16(s, additional)
      [] method = "ext_sla_r8" -> ext_sla_r8(s, additional)
      [] method = "ext_sla_indir_r16" -> ext_sla_indir_r16(s, additional)
      [] method = "ext_sra_r8" -> ext_sra_r8(s, additional)
      [] method = "ext_sra_indir_r16" -> ext_sra_indir_r16(s, additional)
      [] method = "ext_srl_r8" -> ext_srl_r8(s, additional)
      [] method = "ext_srl_indir_r16" -> ext_srl_indir_r16(s, additional)
      [] method = "rlca" -> rlca(s, additional)
      [] method = "rla" -> rla(s, additional)
      [] method = "rrca" -> rrca(s, additional)
      [] method = "rra" -> rra(s, additional)
      [] method = "cpl" -> cpl(s, additional)
      [] method = "di" -> di(s, additional)
      [] method = "ei" -> ei(s, additional)
      [] method = "scf" -> scf(s, additional)
      [] method = "ccf" -> ccf(s, additional)
      [] method = "ext_bit_r8" -> ext_bit_r8(s, additional)
      [] method = "ext_bit_indir_r16" -> ext_bit_indir_r16(s, additional)
      [] method = "ext_res_bit_r8" -> ext_res_bit_r8(s, additional)
      [] method = "ext_res_bit_indir_r16" -> ext_res_bit_indir_r16(s, additional)
      [] method = "ext_set_bit_r8" -> ext_set_bit_r8(s, additional)
      [] method = "ext_set_bit_indir_r16" -> ext_set_bit_indir_r16(s, additional)

-----------------------------------------------------------------------------
(* cpu.rs                                                                  *)

\* The opcode Cpu::step fetches at PC: [opcode, prefixed], opcode = PANIC when a
\* fetch panics.
fetch(regs, mem) ==
    LET first == read_u8(mem, get_pc(regs))
        prefixed == first = 203
    IN  [opcode |-> IF prefixed THEN read_u8(mem, Add16(get_pc(regs), 1)) ELSE first,
         prefixed |-> prefixed]

\* A faulty Cpu::step: a byte without an entry is skipped like a NOP.
Cpu_step_skips_unknown(s) ==
    LET f == fetch(s.registers, s.memory)
        instruction == from_byte(f.opcode, f.prefixed)
    IN  IF f.opcode = PANIC THEN Panic(s)
        ELSE IF instruction.some
        THEN execute(instruction.execute,
                     [s EXCEPT !.memory.cpu_cycles = instruction.cycles],
                     instruction.data)
        ELSE [s EXCEPT !.registers = inc_pc(s.registers, 1), !.memory.cpu_cycles = 1]

\* Cpu::step on the state s.
Cpu_step(s) ==
    LET f == fetch(s.registers, s.memory)
        instruction == from_byte(f.opcode, f.prefixed)
    IN  IF f.opcode = PANIC THEN Panic(s)
        ELSE IF instruction.some
        THEN execute(instruction.execute,
                     [s EXCEPT !.memory.cpu_cycles = instruction.cycles],
                     instruction.data)
        ELSE Panic(s)


-----------------------------------------------------------------------------
(* ppu.rs. The state s also carries the Ppu and the caller's pixel buffer. *)

GAMEBOY_SCREEN_WIDTH == 160
GAMEBOY_SCREEN_HEIGHT == 144
BYTES_PER_PIXEL == 3
TILESET_START_ADDRESS == 32768
TILE_SIZE == 16
WX == 65355
WY == 65354

\* LcdControl::default()
LcdControl_default ==
    [draw_background |-> FALSE, draw_sprites |-> FALSE, big_sprites |-> FALSE,
     background_tile_select |-> FALSE, background_tile_data_select |-> FALSE,
     window_display |-> FALSE, window_tile_map_select |-> FALSE, lcd_enabled |-> FALSE]

\* value & (1 << n) != 0
bit_set(value, n) == (value \div (2 ^ n)) % 2 = 1

\* LcdControl::update
LcdControl_update(mem) ==
    LET lcd_control_value == read_u8(mem, 65344)
    IN  [draw_background |-> bit_set(lcd_control_value, 0),
         draw_sprites |-> bit_set(lcd_control_value, 1),
         big_sprites |-> bit_set(lcd_control_value, 2),
         background_tile_select |-> bit_set(lcd_control_value, 3),
         background_tile_data_select |-> bit_set(lcd_control_value, 4),
         window_display |-> bit_set(lcd_control_value, 5),
         window_tile_map_select |-> bit_set(lcd_control_value, 6),
         lcd_enabled |-> bit_set(lcd_control_value, 7)]

\* Ppu::new
Ppu_new ==
    [lcd_control |-> LcdControl_default, current_mode |-> "OAM", dots_in_mode |-> 0,
     scanline |-> 0, wx |-> 0, wy |-> 0, total_cycles |-> 0]

\* Ppu::reset_window
reset_window(s, mode) ==
    CASE mode = "OAM" -> [s EXCEPT !.ppu.wx = read_u8(s.memory, WX),
                                   !.ppu.wy = read_u8(s.memory, WY)]
      [] mode = "HBLANK" -> [s EXCEPT !.ppu.wx = read_u8(s.memory, WX)]
      [] OTHER -> s

\* Ppu::enter_mode
enter_mode(s, mode) == reset_window([s EXCEPT !.ppu.current_mode = mode], mode)

\* A faulty Ppu::change_scanline: LY is not copied to 0xFF44.
change_scanline_no_mirror(s, scanline) == [s EXCEPT !.ppu.scanline = scanline]

\* Ppu::change_scanline
change_scanline(s, scanline) ==
    write_special_regsiter([s EXCEPT !.ppu.scanline = scanline], 65348, scanline)

\* Tile::new: the 16 bytes of the tile, data[i] for i in 0..15
Tile_new(tile_id, mem) ==
    [id |-> tile_id,
     data |-> [i \in 0 .. (TILE_SIZE - 1) |->
                  read_u8(mem, TILESET_START_ADDRESS + TILE_SIZE * tile_id + i)]]

\* Ppu::fetch_tile
fetch_tile(address, mem) == Tile_new(read_u8(mem, address), mem)

\* Tile::value_at: PANIC when data[y * 2] is out of bounds.
value_at(tile, x, y) ==
    LET mask_x == 2 ^ (7 - x)
        y2 == y * 2
        low == IF BitAnd(tile.data[y2], mask_x) # 0 THEN 1 ELSE 0
        high == IF BitAnd(tile.data[y2], mask_x) # 0 THEN 2 ELSE 0
    IN  IF y2 >= TILE_SIZE THEN PANIC ELSE BitOr(low, high)

\* Ppu::palletize
palletize(pixel) == <<255, 160, 96, 0>>[(pixel % 4) + 1]

\* The index draw_pixel computes for byte i of pixel (x, y): usize arithmetic, so a
\* negative x (an i32 cast to usize) overflows the multiplication in a debug build
\* and wraps in a release build. PANIC when the arithmetic or the index panics.
pixel_index(x, y, i) ==
    LET offset == (GAMEBOY_SCREEN_WIDTH * 3) * y
        index == (x * 3) + offset + i
    IN  IF x < 0 /\ overflow_checks THEN PANIC
        ELSE IF index < 0 \/ index >= GAMEBOY_SCREEN_WIDTH * GAMEBOY_SCREEN_HEIGHT * 3
        THEN PANIC
        ELSE index

\* Ppu::draw_pixel: the three bytes of pixel (x, y), in order, until one panics.
draw_pixel(s, x, y, pixel) ==
    LET ok == {i \in 0 .. (BYTES_PER_PIXEL - 1) :
                  \A j \in 0 .. i : pixel_index(x, y, j) # PANIC}
        hit == {pixel_index(x, y, i) : i \in ok}
        data == [o \in (DOMAIN s.pixel_data) \cup hit |->
                    IF o \in hit THEN pixel ELSE s.pixel_data[o]]
    IN  IF s.panicked THEN s
        ELSE [s EXCEPT !.pixel_data = data,
                       !.panicked = Cardinality(ok) < BYTES_PER_PIXEL]

\* The 160 pixels of a background or window line: the loop of draw_scanline that
\* starts in tile column line_offset at tile pixel x and walks right, fetching the
\* next tile of the map row at map_offset each time x reaches 8.
draw_line(s, map_offset, line_offset, x, y) ==
    LET column(i) == BitAnd(line_offset + ((x + i) \div 8), 31)
        tile(i) == fetch_tile(map_offset + column(i), s.memory)
        pixel(i) == palletize(value_at(tile(i), (x + i) % 8, y))
        row == (GAMEBOY_SCREEN_WIDTH * 3) * s.ppu.scanline
        hit == row .. (row + GAMEBOY_SCREEN_WIDTH * 3 - 1)
    IN  [s EXCEPT !.pixel_data =
            [o \in (DOMAIN s.pixel_data) \cup hit |->
                IF o \in hit THEN pixel((o - row) \div 3) ELSE s.pixel_data[o]]]

\* Sprite::fetch: {} for a placeholder sprite, else {[x, y, tile]}
Sprite_fetch(id, mem) ==
    LET sprite_address == 65024 + (id * 4)
        y == read_u8(mem, sprite_address)
        x == read_u8(mem, sprite_address + 1)
    IN  IF x = 0 \/ y = 0 THEN {}
        ELSE {[x |-> x - 8, y |-> y - 16, tile |-> read_u8(mem, sprite_address + 2)]}

\* The inner loop of the sprite pass: pixels x .. 7 of one sprite.
RECURSIVE draw_sprite_pixels(_, _, _, _)
draw_sprite_pixels(s, sprite, sprite_tile, x) ==
    IF s.panicked \/ x >= 8 THEN s
    ELSE LET row == Sub8(s.ppu.scanline, sprite.y % 256)
             pixel == value_at(sprite_tile, x, row)
             drawn == {draw_pixel(s, sprite.x + x, s.ppu.scanline, palletize(pixel))}
         IN  IF row = PANIC \/ pixel = PANIC THEN Panic(s)
             ELSE unwrap({draw_sprite_pixels(s1, sprite, sprite_tile, x + 1) : s1 \in drawn})

\* The sprite pass: sprites id .. 39 of OAM, in order.
RECURSIVE draw_sprites(_, _)
draw_sprites(s, id) ==
    IF s.panicked \/ id >= 40 THEN s
    ELSE LET fetched == Sprite_fetch(id, s.memory)
             drawn == {draw_sprite_pixels(s, sprite, Tile_new(sprite.tile, s.memory), 0) :
                          sprite \in fetched}
         IN  IF fetched = {} THEN draw_sprites(s, id + 1)
             ELSE unwrap({draw_sprites(s1, id + 1) : s1 \in drawn})

\* Ppu::draw_scanline, the background pass
draw_background(s) ==
    LET scy == read_u8(s.memory, 65346)
        scx == read_u8(s.memory, 65347)
        map_line == Add8(scy, s.ppu.scanline)
        map_offset == (IF s.ppu.lcd_control.background_tile_select THEN 39936 ELSE 38912)
                          + (map_line \div 8) * 32
    IN  IF ~s.ppu.lcd_control.draw_background THEN s
        ELSE IF map_line = PANIC THEN Panic(s)
        ELSE draw_line(s, map_offset, scx \div 8, scx % 8, map_line % 8)

\* Ppu::draw_scanline, the window pass
draw_window(s) ==
    LET map_line == s.ppu.scanline - s.ppu.wy
        map_offset == (IF s.ppu.lcd_control.window_tile_map_select THEN 39936 ELSE 38912)
                          + (map_line \div 8) * 32
    IN  IF s.panicked \/ ~(s.ppu.lcd_control.window_display /\ s.ppu.scanline >= s.ppu.wy)
        THEN s
        ELSE draw_line(s, map_offset, s.ppu.wx \div 8, 0, map_line % 8)

\* Ppu::draw_scanline, the sprite pass
draw_all_sprites(s) ==
    IF s.panicked \/ ~s.ppu.lcd_control.draw_sprites THEN s ELSE draw_sprites(s, 0)

\* Ppu::draw_scanline
draw_scanline(s) ==
    LET updated == {[s EXCEPT !.ppu.lcd_control = LcdControl_update(s.memory)]}
        background == {draw_background(s0) : s0 \in updated}
        window == {draw_window(s1) : s1 \in background}
    IN  unwrap({draw_all_sprites(s2) : s2 \in window})

\* Ppu::step, the OAM arm, on the state with the step's dots added.
step_OAM(s) ==
    IF s.ppu.dots_in_mode >= 80
    THEN [s |-> enter_mode([s EXCEPT !.ppu.dots_in_mode = @ - 80], "VRAM"), frame |-> FALSE]
    ELSE [s |-> s, frame |-> FALSE]

\* A faulty VRAM arm: HBLANK is entered without drawing the scanline.
step_VRAM_no_scanline(s) ==
    IF s.ppu.dots_in_mode >= 168
    THEN [s |-> enter_mode([s EXCEPT !.ppu.dots_in_mode = @ - 168], "HBLANK"),
          frame |-> FALSE]
    ELSE [s |-> s, frame |-> FALSE]

\* Ppu::step, the VRAM arm
step_VRAM(s) ==
    IF s.ppu.dots_in_mode >= 168
    THEN [s |-> unwrap({draw_scanline(s2) :
                           s2 \in {enter_mode([s EXCEPT !.ppu.dots_in_mode = @ - 168],
                                              "HBLANK")}}),
          frame |-> FALSE]
    ELSE [s |-> s, frame |-> FALSE]

\* A faulty HBLANK arm: VBLANK is entered one line late, at LY = 145.
step_HBLANK_late_vblank(s) ==
    LET s1 == {change_scanline([s EXCEPT !.ppu.dots_in_mode = @ - 208], s.ppu.scanline + 1)}
    IN  IF s.ppu.dots_in_mode >= 208
        THEN [s |-> unwrap({IF s2.ppu.scanline = 145 THEN enter_mode(s2, "VBLANK")
                                                      ELSE enter_mode(s2, "OAM") : s2 \in s1}),
              frame |-> FALSE]
        ELSE [s |-> s, frame |-> FALSE]

\* Ppu::step, the HBLANK arm
step_HBLANK(s) ==
    LET s1 == {change_scanline([s EXCEPT !.ppu.dots_in_mode = @ - 208], s.ppu.scanline + 1)}
    IN  IF s.ppu.dots_in_mode >= 208
        THEN [s |-> unwrap({IF s2.ppu.scanline = 144 THEN enter_mode(s2, "VBLANK")
                                                      ELSE enter_mode(s2, "OAM") : s2 \in s1}),
              frame |-> FALSE]
        ELSE [s |-> s, frame |-> FALSE]

\* A faulty VBLANK arm: it signals a frame at the end of every blank line.
step_VBLANK_every_line(s) ==
    IF s.ppu.dots_in_mode >= 456
    THEN [s |-> [change_scanline(s, s.ppu.scanline + 1) EXCEPT !.ppu.dots_in_mode = 0],
          frame |-> TRUE]
    ELSE [s |-> s, frame |-> FALSE]

\* Ppu::step, the VBLANK arm
step_VBLANK(s) ==
    LET s1 == {IF s.ppu.dots_in_mode >= 456
               THEN [change_scanline([s EXCEPT !.ppu.dots_in_mode = @ - 456],
                                     s.ppu.scanline + 1)
                        EXCEPT !.ppu.dots_in_mode = 0]
               ELSE s}
    IN  unwrap({IF s2.ppu.scanline = 153
                THEN [s |-> enter_mode(change_scanline(s2, 0), "OAM"), frame |-> TRUE]
                ELSE [s |-> s2, frame |-> FALSE] : s2 \in s1})

\* Ppu::step: [s |-> the state after, frame |-> the value returned]
Ppu_step(s) ==
    LET dots == Add16(s.ppu.dots_in_mode, s.memory.cpu_cycles * 4)
        s1 == [s EXCEPT !.ppu.dots_in_mode = dots,
                        !.ppu.total_cycles = @ + s.memory.cpu_cycles]
    IN  IF dots = PANIC THEN [s |-> Panic(s), frame |-> FALSE]
        ELSE CASE s.ppu.current_mode = "OAM" -> step_OAM(s1)
               [] s.ppu.current_mode = "VRAM" -> step_VRAM(s1)
               [] s.ppu.current_mode = "HBLANK" -> step_HBLANK(s1)
               [] s.ppu.current_mode = "VBLANK" -> step_VBLANK(s1)

-----------------------------------------------------------------------------
(* The machine: GameBoy::new, then Cpu::step and Ppu::step in turn.        *)

MaxSteps == 8
MaxRotate == 14
MaxPokes == 4
MaxDrawCycles == 180
MaxWrites == 2
MaxCycles == 17600

\* A ROM image holding the bytes of code from offset 0 on.
image(code) == [i \in 0 .. (Len(code) - 1) |-> code[i + 1]]

lo(v) == v % 256
hi(v) == v \div 256

\* Boot images: short programs, every other byte 0x00 (NOP).
\* LD SP,sp; LD BC,v; PUSH BC; POP rr; PUSH AF; POP DE
StackPrograms ==
    {<<\h31, lo(sp), hi(sp), \h01, lo(v), hi(v), \hC5, pop, \hF5, \hD1>> :
        sp \in {\hC100, \hFFFE, \h0101, \h0100, \h0001, \hE002},
        v \in {\h1234, \h12FF, \h0000, \hA5F0},
        pop \in {\hF1, \hD1, \hE1, \hC1}}

\* LD SP,0xC100; LD BC,af; PUSH BC; POP AF; then a jump, call or return
BranchPrograms ==
    {<<\h31, \h00, \hC1, \h01, f, \h00, \hC5, \hF1>> \o branch :
        f \in {\h00, \h80, \h10, \h90},
        branch \in {<<op, d>> : op \in {\h18, \h20, \h28, \h30, \h38},
                                d \in {\h05, \h00, \h7F, \h80, \hFE, \hFF}}
               \cup {<<op, lo(a), hi(a)>> :
                        op \in {\hC3, \hC2, \hCA, \hD2, \hDA, \hCD, \hC4, \hCC, \hD4, \hDC},
                        a \in {\h0150, \hC000}}
               \cup {<<op>> : op \in {\hC9, \hC0, \hC8, \hD0, \hD8, \hE9, \hC7, \hFF}}}

\* A JR d planted at 0xFFFD by the program, then jumped to.
HighJumpPrograms ==
    {<<\h21, \hFD, \hFF, \h36, \h18, \h21, \hFE, \hFF, \h36, d, \hC3, \hFD, \hFF>> :
        d \in {\h00, \h01, \h7F, \h80}}

\* LD HL,a; LD (HL),0xAB; LD B,(HL); LD (a),SP; LD A,0x01; LDH (0x50),A, which hands
\* the addresses below 0x0100 over to the cartridge (see Cart).
MemoryPrograms ==
    {<<\h21, lo(a), hi(a), \h36, \hAB, \h46, \h08, lo(a), hi(a), \h3E, \h01, \hE0, \h50>> :
        a \in {\h0010, \h00FE, \h00FF, \h0100, \h4000, \h8000, \hA000, \hC000, \hE000,
               \hFF80, \hFF50, \hFFFF}}

\* LD HL,hl; LD BC,0x3C0F; LD DE,0xF00F; LD A,a; AND x
AndPrograms ==
    {<<\h21, lo(v), hi(v), \h01, \h0F, \h3C, \h11, \h0F, \hF0, \h3E, a>> \o and :
        v \in {\h0FF0, \hC000},
        a \in {\hFF, \h0F, \h00, \hA5},
        and \in {<<op>> : op \in {\hA0, \hA1, \hA2, \hA3, \hA4, \hA5, \hA6, \hA7}}
                \cup {<<\hE6, \h47>>}}

Programs ==
    StackPrograms \cup BranchPrograms \cup HighJumpPrograms \cup MemoryPrograms
        \cup AndPrograms

\* A cartridge image: 32 KiB, zero but for a few marked bytes and, where the
\* MemoryPrograms leave the boot image, LD (HL),0xCD; LD B,(HL).
Cart == (\h0000 :> \h00) @@ (\h000D :> \h36) @@ (\h000E :> \hCD) @@ (\h000F :> \h46)
            @@ (\h0010 :> \h3E) @@ (\h0040 :> \hAA) @@ (\h00FE :> \h11)
            @@ (\h00FF :> \h22) @@ (\h0100 :> \h00) @@ (\h4000 :> \h77)

\* A boot image that is data, not a program.
BootData == (\h0000 :> \h31) @@ (\h0010 :> \h77) @@ (\h0040 :> \h55) @@ (\h00FE :> \hFE)
                @@ (\h00FF :> \h50)

\* The record the executors work on, built from the variables.
State ==
    [registers |-> registers, memory |-> memory, ppu |-> ppu, pixel_data |-> pixel_data,
     panicked |-> panicked, written |-> {}]

\* Cpu::new, Ppu::new and Memory::new(boot, cart), and sdl.rs's vec![0; ...] buffer.
New(boot, cart) ==
    /\ registers = Registers_default
    /\ memory = Memory_new(boot, cart)
    /\ ppu = Ppu_new
    /\ pixel_data = chunk_new
    /\ panicked = FALSE
    /\ overflow_checks \in BOOLEAN
    /\ turn = "cpu"
    /\ frame_ready = FALSE
    /\ boot_image = boot
    /\ steps = 0
    /\ frames = 0
    /\ last = [op |-> "new", opcode |-> PANIC, prefixed |-> FALSE,
               registers |-> Registers_default, address |-> PANIC, value |-> PANIC,
               written |-> {}]

Init == \E code \in Programs : New(image(code), Cart)

\* The first half of GameBoy::step: cpu.step(&mut memory)
CpuStep ==
    /\ ~panicked /\ turn = "cpu" /\ steps < MaxSteps
    /\ \E s \in {Cpu_step(State)}, f \in {fetch(registers, memory)} :
           /\ registers' = s.registers
           /\ memory' = s.memory
           /\ panicked' = s.panicked
           /\ last' = [op |-> "Cpu::step", opcode |-> f.opcode, prefixed |-> f.prefixed,
                       registers |-> registers, address |-> PANIC, value |-> PANIC,
                       written |-> s.written]
    /\ turn' = "ppu"
    /\ steps' = steps + 1
    /\ UNCHANGED <<ppu, pixel_data, overflow_checks, frame_ready, boot_image, frames>>

\* The second half of GameBoy::step: ppu.step(&mut memory, pixel_buffer)
PpuStep ==
    /\ ~panicked /\ turn = "ppu"
    /\ LET r == Ppu_step(State)
       IN  /\ ppu' = r.s.ppu
           /\ memory' = r.s.memory
           /\ pixel_data' = r.s.pixel_data
           /\ panicked' = r.s.panicked
           /\ frame_ready' = r.frame
           /\ frames' = IF r.frame THEN frames + 1 ELSE frames
    /\ turn' = "cpu"
    /\ UNCHANGED <<registers, overflow_checks, boot_image, steps, last>>

Next == CpuStep \/ PpuStep

Spec == Init /\ [][Next]_vars

-----------------------------------------------------------------------------
(* The arithmetic and bit instructions, run from boot images that first    *)
(* load the operands.                                                      *)

\* LD SP,0xC100; LD BC,a:f; PUSH BC; POP AF, which leaves A = a and F = f
SetAF(a, f) == <<\h31, \h00, \hC1, \h01, f, a, \hC5, \hF1>>

\* The opcode of LD r,d8 for each 8-bit register; INC r is one less than it by two,
\* DEC r by one.
LdImm8 == {\h06, \h0E, \h16, \h1E, \h26, \h2E, \h3E}

\* SetAF; XOR A or SUB A,A
XorSubPrograms ==
    {SetAF(a, f) \o <<op>> :
        a \in {\h00, \h01, \h07, \h08, \h0F, \h80, \hA5, \hFF},
        f \in {\h00, \h10, \h50, \h80, \hF0},
        op \in {\hAF, \h97}}

\* SetAF; LD B,x; ADD A,r or ADD A,x
AddPrograms ==
    UNION {{SetAF(a, f) \o <<\h06, x>> \o add :
               a \in {\h00, \h0F, \h3A, \h80, \hFF},
               f \in {\h00, \hF0},
               add \in {<<op>> : op \in {\h80, \h81, \h82, \h83, \h84, \h85, \h87}}
                       \cup {<<\hC6, x>>}} :
           x \in {\h00, \h01, \h0F, \hC6, \hF1}}

\* LD A,a; LD B,b; ADD A,B
CyclePrograms ==
    {<<\h3E, a, \h06, b, \h80>> : a \in {\h10, \h00, \hFF}, b \in {\h20, \h00, \h01}}

\* SetAF; LD r,v; INC r or DEC r, and SetAF; LD HL,0xC000; LD (HL),v; INC (HL) or DEC (HL)
IncDecPrograms ==
    {SetAF(0, f) \o code :
        f \in {\h00, \h10, \hF0},
        code \in {<<ld, v, ld - d>> :
                     ld \in LdImm8, v \in {\h00, \h01, \h0F, \h10, \hF0, \hFF}, d \in {1, 2}}
                 \cup {<<\h21, \h00, \hC0, \h36, v, op>> :
                          v \in {\h00, \h01, \h0F, \h10, \hF0, \hFF}, op \in {\h34, \h35}}}

\* SetAF; LD rr,v; INC rr or DEC rr
IncDec16Programs ==
    {SetAF(\h5A, f) \o <<ld, lo(v), hi(v), ld + d>> :
        f \in {\h00, \h50, \hA0, \hF0},
        ld \in {\h01, \h11, \h21, \h31},
        v \in {\h0000, \h00FF, \h1234, \hFFFF},
        d \in {2, 10}}

\* LD r,v; SWAP r; SWAP r, and LD HL,0xC000; LD (HL),v; SWAP (HL); SWAP (HL)
SwapPrograms ==
    {<<ld, v, \hCB, \h30 + ((ld - 6) \div 8), \hCB, \h30 + ((ld - 6) \div 8)>> :
        ld \in LdImm8, v \in {\h00, \h0F, \h12, \hA5, \hF0, \hFF}}
    \cup {<<\h21, \h00, \hC0, \h36, v, \hCB, \h36, \hCB, \h36>> :
             v \in {\h00, \h0F, \h12, \hA5, \hF0, \hFF}}

AluPrograms ==
    XorSubPrograms \cup AddPrograms \cup CyclePrograms \cup IncDecPrograms
        \cup IncDec16Programs \cup SwapPrograms

InitAlu == \E code \in AluPrograms : New(image(code), Cart)

SpecAlu == InitAlu /\ [][Next]_vars

-----------------------------------------------------------------------------
(* Rotation through the carry: runs long enough for nine RL in a row.      *)

\* SetAF(v, f); LD r,v; RL r nine times
RotatePrograms ==
    {SetAF(v, f) \o <<ld, v>>
        \o <<\hCB, op, \hCB, op, \hCB, op, \hCB, op, \hCB, op, \hCB, op, \hCB, op,
             \hCB, op, \hCB, op>> :
        v \in {\h00, \h01, \h7E, \h80, \hA5, \hFF},
        f \in {\h00, \h10, \hE0, \hF0},
        <<ld, op>> \in {<<\h06, \h10>>, <<\h0E, \h11>>, <<\h16, \h12>>, <<\h1E, \h13>>,
                        <<\h26, \h14>>, <<\h2E, \h15>>, <<\h3E, \h17>>}}

InitRotate == \E code \in RotatePrograms : New(image(code), Cart)

\* cpu.step(&mut memory), as CpuStep, for the longer run
RotateStep ==
    /\ ~panicked /\ turn = "cpu" /\ steps < MaxRotate
    /\ \E s \in {Cpu_step(State)}, f \in {fetch(registers, memory)} :
           /\ registers' = s.registers
           /\ memory' = s.memory
           /\ panicked' = s.panicked
           /\ last' = [op |-> "Cpu::step", opcode |-> f.opcode, prefixed |-> f.prefixed,
                       registers |-> registers, address |-> PANIC, value |-> PANIC,
                       written |-> s.written]
    /\ turn' = "ppu"
    /\ steps' = steps + 1
    /\ UNCHANGED <<ppu, pixel_data, overflow_checks, frame_ready, boot_image, frames>>

NextRotate == RotateStep \/ PpuStep

SpecRotate == InitRotate /\ [][NextRotate]_vars

-----------------------------------------------------------------------------
(* The bus alone: Memory::write_u8 and Memory::write_u16 called with       *)
(* addresses on both sides of every region boundary.                       *)

Addresses ==
    {\h0000, \h0010, \h00FE, \h00FF, \h0100, \h3FFF, \h7FFF, \h9FFF, \hC000, \hDFFF,
     \hFDFF, \hFF50, \hFFFF}

InitMemory == New(BootData, Cart)

BusWrite8(address, value) ==
    /\ ~panicked /\ steps < MaxWrites
    /\ LET s == write_u8(State, address, value)
       IN  /\ memory' = s.memory
           /\ panicked' = s.panicked
           /\ last' = [last EXCEPT !.op = "write_u8", !.address = address, !.value = value,
                                   !.written = s.written]
    /\ steps' = steps + 1
    /\ UNCHANGED <<registers, ppu, pixel_data, overflow_checks, turn, frame_ready,
                   boot_image, frames>>

BusWrite16(address, value) ==
    /\ ~panicked /\ steps < MaxWrites
    /\ LET s == write_u16(State, address, value)
       IN  /\ memory' = s.memory
           /\ panicked' = s.panicked
           /\ last' = [last EXCEPT !.op = "write_u16", !.address = address, !.value = value,
                                   !.written = s.written]
    /\ steps' = steps + 1
    /\ UNCHANGED <<registers, ppu, pixel_data, overflow_checks, turn, frame_ready,
                   boot_image, frames>>

NextMemory ==
    \/ \E address \in Addresses, value \in {\hAB, \h01} : BusWrite8(address, value)
    \/ \E address \in Addresses, value \in {\h1234, \hFF01} : BusWrite16(address, value)

SpecMemory == InitMemory /\ [][NextMemory]_vars

-----------------------------------------------------------------------------
(* The PPU alone: Ppu::step fed the cycle count of one instruction per     *)
(* step, the same count all through a run.                                 *)

Cycles == 1 .. 6

InitPpu == New(chunk_new, Cart)

Tick(cycles) ==
    /\ ~panicked /\ ppu.total_cycles < MaxCycles
    /\ memory.cpu_cycles \in {0, cycles}
    /\ LET r == Ppu_step([State EXCEPT !.memory.cpu_cycles = cycles])
       IN  /\ ppu' = r.s.ppu
           /\ memory' = r.s.memory
           /\ pixel_data' = r.s.pixel_data
           /\ panicked' = r.s.panicked
           /\ frame_ready' = r.frame
           /\ frames' = IF r.frame THEN frames + 1 ELSE frames
    /\ UNCHANGED <<registers, overflow_checks, turn, boot_image, steps, last>>

NextPpu == \E cycles \in Cycles : Tick(cycles)

SpecPpu == InitPpu /\ [][NextPpu]_vars


-----------------------------------------------------------------------------
(* The PPU drawing: the program first writes tile data, a sprite and the   *)
(* LCD registers through the bus, then Ppu::step is fed 6 cycles a step    *)
(* for the first scanlines.                                                *)

\* What the program writes before the first PPU step: address and byte. 0x8000 is
\* row 0 of tile 0, 0xFE00 and 0xFE01 are y and x of sprite 0, 0xFF40 is LCDC.
Pokes ==
    ({\h8000} \X {\hFF})
        \cup ({\hFE00} \X {\h10, \h11})
        \cup ({\hFE01} \X {\h08, \h07, \hA1})
        \cup ({\hFF40} \X {\h01, \h02, \h03, \h23})

InitDraw == New(chunk_new, Cart)

\* A bus write of the program, in ascending order of address.
Poke(address, value) ==
    /\ ~panicked /\ ppu.total_cycles = 0 /\ steps < MaxPokes
    /\ address > last.address
    /\ LET s == write_u8(State, address, value)
       IN  /\ memory' = s.memory
           /\ panicked' = s.panicked
           /\ last' = [last EXCEPT !.op = "write_u8", !.address = address, !.value = value,
                                   !.written = s.written]
    /\ steps' = steps + 1
    /\ UNCHANGED <<registers, ppu, pixel_data, overflow_checks, turn, frame_ready,
                   boot_image, frames>>

\* ppu.step(&mut memory, pixel_buffer) after an instruction of 6 cycles
DrawTick ==
    /\ ~panicked /\ ppu.total_cycles < MaxDrawCycles
    /\ LET r == Ppu_step([State EXCEPT !.memory.cpu_cycles = 6])
       IN  /\ ppu' = r.s.ppu
           /\ memory' = r.s.memory
           /\ pixel_data' = r.s.pixel_data
           /\ panicked' = r.s.panicked
           /\ frame_ready' = r.frame
           /\ frames' = IF r.frame THEN frames + 1 ELSE frames
    /\ UNCHANGED <<registers, overflow_checks, turn, boot_image, steps, last>>

NextDraw ==
    \/ \E poke \in Pokes : Poke(poke[1], poke[2])
    \/ DrawTick

SpecDraw == InitDraw /\ [][NextDraw]_vars

-----------------------------------------------------------------------------
(* Bytes without an instruction: boot images that load the registers and   *)
(* a byte of RAM, and then reach an opcode the table has no entry for.     *)

\* The bytes Instruction::from_byte_not_prefixed gives None for.
AbsentOpcodes == {byte \in 0 .. 255 : ~from_byte_not_prefixed(byte).some}

\* SetAF; LD HL,0xC000; LD (HL),0x5A; then a byte without an entry. 0xCB is left
\* out: Cpu::step takes it for the prefix and never looks it up.
UnknownPrograms ==
    {SetAF(a, f) \o <<\h21, \h00, \hC0, \h36, \h5A, op>> :
        a \in {\h00, \hA5},
        f \in {\h00, \hF0},
        op \in AbsentOpcodes \ {\hCB}}

InitUnknown == \E code \in UnknownPrograms : New(image(code), Cart)

SpecUnknown == InitUnknown /\ [][Next]_vars

-----------------------------------------------------------------------------
(* The decoder alone: Instruction::from_byte applied to one byte of either *)
(* table.                                                                  *)

MaxDecodes == 1

InitDecode == New(chunk_new, Cart)

\* Instruction::from_byte(byte, prefixed): last.value keeps the cycles of the entry
\* found, PANIC when the table gives None.
Decode(byte, prefixed) ==
    /\ steps < MaxDecodes
    /\ LET instruction == from_byte(byte, prefixed)
       IN  last' = [last EXCEPT !.op = "from_byte", !.opcode = byte,
                                !.prefixed = prefixed,
                                !.value = IF instruction.some THEN instruction.cycles
                                                              ELSE PANIC]
    /\ steps' = steps + 1
    /\ UNCHANGED <<registers, memory, ppu, pixel_data, panicked, overflow_checks, turn,
                   frame_ready, boot_image, frames>>

NextDecode == \E byte \in 0 .. 255, prefixed \in BOOLEAN : Decode(byte, prefixed)

SpecDecode == InitDecode /\ [][NextDecode]_vars

-----------------------------------------------------------------------------
(* The PPU next to a program that writes the LCD registers: Ppu::step fed  *)
(* 5 or 6 cycles a step, and at any moment a bus write of 0x80 to LCDC     *)
(* (0xFF40: display on, nothing to draw) or of 0xAB to LY (0xFF44).        *)

LcdWrites == {<<\hFF40, \h80>>, <<\hFF44, \hAB>>}

InitLcd == New(chunk_new, Cart)

NextLcd ==
    \/ \E cycles \in {5, 6} : Tick(cycles)
    \/ \E w \in LcdWrites : BusWrite8(w[1], w[2])

SpecLcd == InitLcd /\ [][NextLcd]_vars

-----------------------------------------------------------------------------
(* Calls and returns: boot images that set SP and F and then jump to a     *)
(* CALL in the cartridge at 0x0150, or push an address and return to it.   *)

\* The cartridge image with the bytes of code from address `at` on.
CartWith(code, at) == [i \in at .. (at + Len(code) - 1) |-> code[i - at + 1]] @@ Cart

\* LD SP,sp; LD BC,f; PUSH BC; POP AF; JP 0x0150, and at 0x0150 a CALL to a
CallImages ==
    {[boot |-> image(<<\h31, lo(sp), hi(sp), \h01, f, \h00, \hC5, \hF1, \hC3, \h50, \h01>>),
      cart |-> CartWith(<<op, lo(a), hi(a)>>, \h0150)] :
        sp \in {\hC100, \h0101},
        f \in {\h00, \h80, \h10, \h90},
        op \in {\hCD, \hC4, \hCC, \hD4, \hDC},
        a \in {\h0200, \hC000}}

\* LD SP,sp; LD BC,f; PUSH BC; POP AF; LD BC,a; PUSH BC; RET or RET cc
RetImages ==
    {[boot |-> image(<<\h31, lo(sp), hi(sp), \h01, f, \h00, \hC5, \hF1,
                       \h01, lo(a), hi(a), \hC5, op>>),
      cart |-> Cart] :
        sp \in {\hC100, \h0101},
        f \in {\h00, \h80, \h10, \h90},
        op \in {\hC9, \hC0, \hC8, \hD0, \hD8},
        a \in {\h0150, \hC234}}

InitCall == \E p \in CallImages \cup RetImages : New(p.boot, p.cart)

SpecCall == InitCall /\ [][Next]_vars

-----------------------------------------------------------------------------
(* The arithmetic of opcodes 0x80..0xBF, its immediate forms and ADD HL,rr.  *)

\* The code that loads x into the operand the register field `index` names:
\* LD r,x, or LD HL,0xC000; LD (HL),x for (HL)
Load8(index, x) ==
    IF index = 6 THEN <<\h21, \h00, \hC0, \h36, x>> ELSE <<6 + (8 * index), x>>

\* ADD, ADC, SUB, SBC, AND, XOR, OR, CP with an immediate byte
ImmOpcodes == {\hC6, \hCE, \hD6, \hDE, \hE6, \hEE, \hF6, \hFE}

\* SetAF(a, f); load x; the opcode on A and the operand loaded, and
\* SetAF(a, f); the opcode on A and the immediate x
Alu8Programs ==
    {SetAF(a, f) \o Load8(op % 8, x) \o <<op>> :
        a \in {\h00, \h0F, \h10, \hFF}, f \in {\h00, \h10},
        x \in {\h00, \h01, \h0F, \hFF}, op \in \h80 .. \hBF}
    \cup {SetAF(a, f) \o <<op, x>> :
             a \in {\h00, \h0F, \h10, \hFF}, f \in {\h00, \h10},
             x \in {\h00, \h01, \h0F, \hFF}, op \in ImmOpcodes}

\* SetAF(0x5A, f); LD HL,v; LD rr,w; ADD HL,rr
AddHlPrograms ==
    {SetAF(\h5A, f) \o <<\h21, lo(v), hi(v), ld, lo(w), hi(w), ld + 8>> :
        f \in {\h00, \h80, \h70},
        v \in {\h0000, \h00FF, \h0F00, \h0FFF, \h8000, \hFFFF},
        w \in {\h0001, \h0100, \h1000, \h8000, \hFFFF},
        ld \in {\h01, \h11, \h21, \h31}}

InitAlu8 == \E code \in Alu8Programs \cup AddHlPrograms : New(image(code), Cart)

SpecAlu8 == InitAlu8 /\ [][Next]_vars

-----------------------------------------------------------------------------
(* BIT, RES and SET: every bit of every operand.                           *)

\* SetAF(0x5A, f); load v; BIT n, RES n or SET n on the operand loaded
BitPrograms ==
    {SetAF(\h5A, f) \o Load8(op % 8, v) \o <<\hCB, op>> :
        f \in {\h10, \hE0}, v \in {\h00, \hA5, \hFF}, op \in \h40 .. \hFF}

InitBit == \E code \in BitPrograms : New(image(code), Cart)

SpecBit == InitBit /\ [][Next]_vars

-----------------------------------------------------------------------------
(* One instruction of every opcode, with the register pairs pointing to RAM. *)

\* The opcodes that set PC themselves: JR, JP, CALL, RET and RST
ControlOpcodes ==
    {\h18, \h20, \h28, \h30, \h38, \hC0, \hC2, \hC3, \hC4, \hC7, \hC8, \hC9, \hCA,
     \hCC, \hCD, \hCF, \hD0, \hD2, \hD4, \hD7, \hD8, \hDA, \hDC, \hDF, \hE7, \hE9,
     \hEF, \hF7, \hFF}

\* LD SP,0xC100; LD HL,0xC000; LD BC,0xC080; LD DE,0xC020
PointToRam ==
    <<\h31, \h00, \hC1, \h21, \h00, \hC0, \h01, \h80, \hC0, \h11, \h20, \hC0>>

\* PointToRam; one opcode followed by the bytes 0x80, 0xC0 (the offset 0x80 or the
\* address 0xC080 where it takes an operand), or 0xCB and one prefixed opcode
WidthPrograms ==
    {PointToRam \o <<op, \h80, \hC0>> : op \in (0 .. 255) \ ControlOpcodes}
    \cup {PointToRam \o <<\hCB, op, \h80>> : op \in 0 .. 255}

InitWidth == \E code \in WidthPrograms : New(image(code), Cart)

SpecWidth == InitWidth /\ [][Next]_vars

-----------------------------------------------------------------------------
(* The bus around the echo range: single reads and writes.                 *)

\* The last bytes of internal RAM, the echo range from end to end, and the first
\* byte above it
EchoAddresses == {\hC000, \hDFFF, \hE000, \hE001, \hF123, \hFDFF, \hFE00}

\* memory.read_u8(address)
BusRead8(address) ==
    /\ ~panicked /\ steps < MaxWrites
    /\ LET value == read_u8(memory, address)
       IN  /\ panicked' = (value = PANIC)
           /\ last' = [last EXCEPT !.op = "read_u8", !.address = address, !.value = value,
                                   !.written = {}]
    /\ steps' = steps + 1
    /\ UNCHANGED <<registers, memory, ppu, pixel_data, overflow_checks, turn, frame_ready,
                   boot_image, frames>>

NextEcho ==
    \/ \E address \in EchoAddresses : BusRead8(address)
    \/ \E address \in EchoAddresses, value \in {\hAB, \h01} : BusWrite8(address, value)

SpecEcho == InitMemory /\ [][NextEcho]_vars

-----------------------------------------------------------------------------
(* The pixels of a tile: bus writes to the first and the last row of tile 0 *)
(* in VRAM, and Tile::value_at on the tile fetched from there.              *)

\* Bytes 0, 1, 14 and 15 of tile 0, with the leftmost or the rightmost bit set
TilePokes == {\h8000, \h8001, \h800E, \h800F} \X {\h80, \h01}

InitTile == New(chunk_new, Cart)

\* Tile::new(0, memory).value_at(x, y): last.opcode keeps the pixel <<x, y>> and
\* last.value the value returned.
TileValue(x, y) ==
    /\ ~panicked
    /\ last' = [last EXCEPT !.op = "value_at", !.opcode = <<x, y>>,
                            !.value = value_at(Tile_new(0, memory), x, y)]
    /\ UNCHANGED <<registers, memory, ppu, pixel_data, panicked, overflow_checks, turn,
                   frame_ready, boot_image, steps, frames>>

NextTile ==
    \/ \E poke \in TilePokes : Poke(poke[1], poke[2])
    \/ \E x \in 0 .. 7, y \in 0 .. 7 : TileValue(x, y)

SpecTile == InitTile /\ [][NextTile]_vars

-----------------------------------------------------------------------------
(* A call and the return from it: a CALL to a RET at 0x0200, and an RST to  *)
(* a RET at its vector.                                                    *)

RstOpcodes == {\hC7, \hCF, \hD7, \hDF, \hE7, \hEF, \hF7, \hFF}

\* LD SP,sp; LD BC,f; PUSH BC; POP AF; JP 0x0150, with CALL or CALL cc 0x0200 at
\* 0x0150 and RET at 0x0200 in the cartridge
CallRetImages ==
    {[boot |-> image(<<\h31, lo(sp), hi(sp), \h01, f, \h00, \hC5, \hF1, \hC3, \h50, \h01>>),
      cart |-> (\h0200 :> \hC9) @@ CartWith(<<op, \h00, \h02>>, \h0150)] :
        sp \in {\hC100, \h0101},
        f \in {\h00, \h80, \h10, \h90},
        op \in {\hCD, \hC4, \hCC, \hD4, \hDC}}

\* LD SP,sp; JP 0x0150 and a RET at the vectors 0x08..0x38 in the boot image, with
\* RST 1..7 at 0x0150 in the cartridge
RstRetImages ==
    {[boot |-> [v \in {\h08, \h10, \h18, \h20, \h28, \h30, \h38} |-> \hC9]
                   @@ image(<<\h31, lo(sp), hi(sp), \hC3, \h50, \h01>>),
      cart |-> CartWith(<<op>>, \h0150)] :
        sp \in {\hC100, \h0101}, op \in RstOpcodes \ {\hC7}}

\* LD SP,sp; LD A,1; LDH (0x50),A, which switches the boot image off, so that the
\* run goes on in the cartridge at 0x0007: JP 0x0150, with RST 0 at 0x0150 and a
\* RET at the vector 0x0000
Rst0Images ==
    {[boot |-> image(<<\h31, lo(sp), hi(sp), \h3E, \h01, \hE0, \h50>>),
      cart |-> (\h0000 :> \hC9) @@ (\h0150 :> \hC7)
                   @@ CartWith(<<\hC3, \h50, \h01>>, \h0007)] :
        sp \in {\hC100, \h0101}}

InitRoundTrip ==
    \E p \in CallRetImages \cup RstRetImages \cup Rst0Images : New(p.boot, p.cart)

SpecRoundTrip == InitRoundTrip /\ [][Next]_vars

-----------------------------------------------------------------------------
(* Properties of the register file and the stack (checked under Spec).     *)

\* C1: in every state the CPU reaches, the low four bits of register F are zero,
\* whatever was popped into AF or written to F or AF.
C1_FLowNibbleZero == read_r8(registers, "F") % 16 = 0

PushOpcodes == {\hC5, \hD5, \hE5, \hF5}
PopOpcodes == {\hC1, \hD1, \hE1, \hF1}

\* The value a pair shows after v is stored in it: AF keeps F's low nibble zero.
Masked(pair, v) == IF pair = "AF" THEN v - (v % 16) ELSE v

\* C2: a POP executed directly after a PUSH of a pair holding v leaves v in the
\* destination pair (F's low nibble cleared when the destination is AF) and leaves
\* SP at the value it had before the PUSH.
C2_PushThenPop ==
    [][(/\ turn = "cpu" /\ turn' = "ppu" /\ ~panicked'
        /\ last.op = "Cpu::step" /\ ~last.prefixed /\ last.opcode \in PushOpcodes
        /\ ~last'.prefixed /\ last'.opcode \in PopOpcodes)
       => LET src == unwrap(from_byte(last.opcode, FALSE).data.r16_src)
              dst == unwrap(from_byte(last'.opcode, FALSE).data.r16_dst)
              v == read_r16(last.registers, src)
          IN  /\ read_r16(registers', dst) = Masked(dst, v)
              /\ registers'.sp = last.registers.sp]_vars

-----------------------------------------------------------------------------
(* Properties of the bus (C3 and C5 under SpecMemory, C4 under Spec).      *)

C4_BootLatch ==
    /\ memory.boot_enabled
    /\ [][/\ ~memory.boot_enabled => ~memory'.boot_enabled
          /\ (memory.boot_enabled /\ ~memory'.boot_enabled)
                => (turn = "cpu" /\ BOOT_ROM_ADDRESS \in last'.written)
          /\ (turn = "cpu" /\ turn' = "ppu" /\ BOOT_ROM_ADDRESS \in last'.written)
                => ~memory'.boot_enabled]_vars

\* C4, its case: the latch has been cleared and stays cleared over a later CPU step
\* that writes elsewhere and the PPU step after it.
C4_LatchStaysCleared ==
    /\ ~memory.boot_enabled /\ turn = "cpu"
    /\ last.op = "Cpu::step" /\ last.written # {} /\ BOOT_ROM_ADDRESS \notin last.written

\* C5: after write16(addr, v), read8(addr) is v's low byte, read8(addr + 1) is v's
\* high byte and read16(addr) is v, for every addr and v.
C5_Write16ReadBack ==
    (last.op = "write_u16" /\ ~panicked)
        => /\ read_u8(memory, last.address) = last.value % 256
           /\ read_u8(memory, Add16(last.address, 1)) = last.value \div 256
           /\ read_u16(memory, last.address) = last.value

-----------------------------------------------------------------------------
(* Properties of the PPU (checked under SpecPpu).                          *)

\* C6: from a fresh PPU, once the steps' cycles add up to 70224 dots (154 lines of
\* 456 dots), frame-ready has been raised exactly once and LY is 0.
C6_OneFramePer70224Dots ==
    (ppu.total_cycles * 4 = 154 * 456) => (frames = 1 /\ ppu.scanline = 0)

-----------------------------------------------------------------------------
(* Properties of the branch and AND executors (checked under Spec).        *)

ConditionalBranches ==
    {\h20, \h28, \h30, \h38, \hC2, \hCA, \hD2, \hDA, \hC4, \hCC, \hD4, \hDC,
     \hC0, \hC8, \hD0, \hD8}

\* Every value F can take in its four flag bits.
FlagStates == {16 * n : n \in 0 .. 15}

\* The cycle counter after the CPU step from the current state with F set to f.
CyclesWith(f) ==
    Cpu_step([State EXCEPT !.registers = write_r8(registers, "F", f)]).memory.cpu_cycles

\* Whether the branch `opcode` is taken when F is f.
TakenWith(opcode, f) ==
    condition_holds(write_r8(registers, "F", f), from_byte(opcode, FALSE).data)

\* C8: for every conditional JP, JR, CALL and RET and every two flag states, one
\* taking the branch and one not, the cycle counter is at least as high after the
\* taken step as after the not-taken one.
C8_TakenCostsNoLess ==
    LET f == fetch(registers, memory)
    IN  (turn = "cpu" /\ ~panicked /\ ~f.prefixed /\ f.opcode \in ConditionalBranches)
            => \A f1, f2 \in FlagStates :
                   (TakenWith(f.opcode, f1) /\ ~TakenWith(f.opcode, f2))
                       => CyclesWith(f1) >= CyclesWith(f2)

\* C8, its case: a conditional RET has just been taken, at the taken cost.
C8_TakenReturn ==
    /\ turn = "ppu" /\ ~panicked /\ last.op = "Cpu::step" /\ ~last.prefixed
    /\ last.opcode \in {\hC0, \hC8, \hD0, \hD8}
    /\ registers.sp = wrapping_add16(last.registers.sp, 2)
    /\ memory.cpu_cycles = 5

RelativeJumps == {\h18, \h20, \h28, \h30, \h38}

sign_extend(d) == IF d >= 128 THEN d - 256 ELSE d

\* C9: JR cc,s8 fetched at P with operand d sets PC to (P + 2 + sign_extend(d)) mod
\* 65536 at 3 cycles when (F & mask) = expected, and to P + 2 at 2 cycles
\* otherwise; JR s8 has mask 0 and expected 0 and is always taken.
C9_RelativeJump ==
    [][LET f == fetch(registers, memory)
           P == get_pc(registers)
           d == read_u8(memory, wrapping_add16(P, 1))
           data == from_byte(f.opcode, FALSE).data
           taken == BitAnd(get_flags(registers), unwrap(data.flag_mask))
                        = unwrap(data.flag_expected)
       IN  (/\ turn = "cpu" /\ turn' = "ppu" /\ ~panicked'
            /\ ~f.prefixed /\ f.opcode \in RelativeJumps)
           => /\ taken => /\ get_pc(registers') = (P + 2 + sign_extend(d) + 65536) % 65536
                          /\ memory'.cpu_cycles = 3
              /\ ~taken => /\ get_pc(registers') = (P + 2) % 65536
                           /\ memory'.cpu_cycles = 2
              /\ f.opcode = \h18 => /\ unwrap(data.flag_mask) = 0
                                    /\ unwrap(data.flag_expected) = 0
                                    /\ taken]_vars

\* C9, its case: a JR at 0xFFFD with operand 0x7F has wrapped PC round to 0x007E.
C9_JumpWrapped ==
    /\ turn = "ppu" /\ ~panicked /\ last.op = "Cpu::step" /\ ~last.prefixed
    /\ last.opcode = \h18 /\ get_pc(last.registers) = \hFFFD
    /\ get_pc(registers) = \h007E /\ memory.cpu_cycles = 3

AndOpcodes == {\hA0, \hA1, \hA2, \hA3, \hA4, \hA5, \hA6, \hA7, \hE6}

\* The operand x of the AND instruction `opcode`, as its mnemonic names it.
AndOperand(opcode, regs, mem) ==
    CASE opcode = \hA0 -> read_r8(regs, "B")
      [] opcode = \hA1 -> read_r8(regs, "C")
      [] opcode = \hA2 -> read_r8(regs, "D")
      [] opcode = \hA3 -> read_r8(regs, "E")
      [] opcode = \hA4 -> read_r8(regs, "H")
      [] opcode = \hA5 -> read_r8(regs, "L")
      [] opcode = \hA6 -> read_u8(mem, read_r16(regs, "HL"))
      [] opcode = \hA7 -> read_r8(regs, "A")
      [] opcode = \hE6 -> read_u8(mem, wrapping_add16(get_pc(regs), 1))

\* C10: after an AND with operand x (a register, (HL) or an immediate) A holds
\* old A & x and the flags are Z = (A = 0), N = 0, H = 1, C = 0.
C10_AndResult ==
    (/\ turn = "ppu" /\ ~panicked /\ last.op = "Cpu::step" /\ ~last.prefixed
     /\ last.opcode \in AndOpcodes)
        => LET x == AndOperand(last.opcode, last.registers, memory)
               result == BitAnd(read_r8(last.registers, "A"), x)
           IN  /\ read_r8(registers, "A") = result
               /\ get_flags(registers) \div 16 = (IF result = 0 THEN 8 ELSE 0) + 2

\* C19 (under SpecMemory): a byte written through the bus to an address of a
\* writable region (the boot overlay while the latch is set, the cartridge banks,
\* VRAM, cartridge RAM, internal RAM, high memory) is the byte read8 returns from
\* that address directly after.
C19_Write8ReadBack ==
    (last.op = "write_u8" /\ ~panicked) => read_u8(memory, last.address) = last.value

-----------------------------------------------------------------------------
(* Properties of the arithmetic and bit instructions (checked under        *)
(* SpecAlu).                                                               *)

\* The CPU step just taken executed one of the unprefixed opcodes and did not panic.
Executed(opcodes) ==
    /\ turn = "ppu" /\ ~panicked /\ last.op = "Cpu::step" /\ ~last.prefixed
    /\ last.opcode \in opcodes

\* The 8-bit operand the register field `index` of an opcode names:
\* B, C, D, E, H, L, (HL), A
Operand8(index, regs, mem) ==
    CASE index = 0 -> read_r8(regs, "B")
      [] index = 1 -> read_r8(regs, "C")
      [] index = 2 -> read_r8(regs, "D")
      [] index = 3 -> read_r8(regs, "E")
      [] index = 4 -> read_r8(regs, "H")
      [] index = 5 -> read_r8(regs, "L")
      [] index = 6 -> read_u8(mem, read_r16(regs, "HL"))
      [] index = 7 -> read_r8(regs, "A")

\* The upper nibble of F for the four flags given as booleans.
FlagNibble(z, n, h, c) ==
    (IF z THEN 8 ELSE 0) + (IF n THEN 4 ELSE 0) + (IF h THEN 2 ELSE 0) + (IF c THEN 1 ELSE 0)

\* C11: whatever A and the flags were, XOR A,A leaves A = 0 with Z = 1, N = 0,
\* H = 0, C = 0, and SUB A,A leaves A = 0 with Z = 1, N = 1, H = 0, C = 0.
C11_XorSubSelf ==
    /\ Executed({\hAF}) =>
           /\ read_r8(registers, "A") = 0
           /\ get_flags(registers) \div 16 = FlagNibble(TRUE, FALSE, FALSE, FALSE)
    /\ Executed({\h97}) =>
           /\ read_r8(registers, "A") = 0
           /\ get_flags(registers) \div 16 = FlagNibble(TRUE, TRUE, FALSE, FALSE)

Inc16Opcodes == {\h03, \h13, \h23, \h33}
Dec16Opcodes == {\h0B, \h1B, \h2B, \h3B}

\* The pair an INC rr or DEC rr opcode names: BC, DE, HL, SP
Pair16(opcode) == <<"BC", "DE", "HL", "SP">>[(opcode \div 16) + 1]

\* C12: INC rr and DEC rr (BC, DE, HL, SP) leave the pair at its old value plus or
\* minus one modulo 65536 and leave the flag register as it was.
C12_IncDec16 ==
    Executed(Inc16Opcodes \cup Dec16Opcodes) =>
        LET pair == Pair16(last.opcode)
            old == read_r16(last.registers, pair)
        IN  /\ read_r16(registers, pair) =
                   (IF last.opcode \in Inc16Opcodes THEN old + 1 ELSE old + 65535) % 65536
            /\ get_flags(registers) = get_flags(last.registers)

\* C12, its case: a DEC rr has wrapped its pair from 0x0000 to 0xFFFF with all four
\* flags set before and after.
C12_Dec16Wrapped ==
    /\ Executed(Dec16Opcodes)
    /\ read_r16(last.registers, Pair16(last.opcode)) = 0
    /\ read_r16(registers, Pair16(last.opcode)) = 65535
    /\ get_flags(last.registers) = \hF0
    /\ get_flags(registers) = \hF0

SwapOpcodes == {\h30, \h31, \h32, \h33, \h34, \h35, \h36, \h37}

swap_nibbles(b) == (b % 16) * 16 + (b \div 16)

\* C13: SWAP leaves in its operand (a register or the byte at (HL)) the old byte
\* with its nibbles exchanged, and a second SWAP of the same operand directly after
\* the first leaves the byte the operand held before the first.
C13_SwapNibbles ==
    [][(/\ turn = "cpu" /\ turn' = "ppu" /\ ~panicked'
        /\ last'.prefixed /\ last'.opcode \in SwapOpcodes)
       => LET index == last'.opcode % 8
          IN  /\ Operand8(index, registers', memory')
                     = swap_nibbles(Operand8(index, registers, memory))
              /\ (last.op = "Cpu::step" /\ last.prefixed /\ last.opcode = last'.opcode
                  /\ index # 6)
                     => Operand8(index, registers', memory')
                            = Operand8(index, last.registers, memory)]_vars

\* C15: a step that executes NOP adds one to PC (modulo 65536), sets the cycle
\* counter to 1, and changes no other register, no flag, not SP and no byte of
\* memory.
C15_NopStep ==
    [][(/\ turn = "cpu" /\ turn' = "ppu"
        /\ fetch(registers, memory) = [opcode |-> 0, prefixed |-> FALSE])
       => /\ ~panicked'
          /\ registers' = [registers EXCEPT !.pc = (registers.pc + 1) % 65536]
          /\ memory' = [memory EXCEPT !.cpu_cycles = 1]]_vars

\* C15, its case: a NOP has run with flags set, registers loaded and SP non-zero.
C15_NopExecuted ==
    /\ Executed({\h00})
    /\ registers.pc = last.registers.pc + 1
    /\ memory.cpu_cycles = 1
    /\ get_flags(registers) = \hF0
    /\ registers.sp = \hC100
    /\ read_r8(registers, "B") # 0

AddOpcodes == {\h80, \h81, \h82, \h83, \h84, \h85, \h87, \hC6}

\* The operand x of ADD A,x: a register, or the byte after the opcode.
AddOperand(opcode, regs, mem) ==
    IF opcode = \hC6 THEN read_u8(mem, wrapping_add16(get_pc(regs), 1))
    ELSE Operand8(opcode % 8, regs, mem)

\* C16: ADD A,x leaves A = (A + x) mod 256 with Z = (result = 0), N = 0,
\* H = ((A & 0xF) + (x & 0xF) > 0xF) and C = (A + x > 0xFF), A and x being the
\* values before the step.
C16_AddResult ==
    Executed(AddOpcodes) =>
        LET a == read_r8(last.registers, "A")
            x == AddOperand(last.opcode, last.registers, memory)
            result == (a + x) % 256
        IN  /\ read_r8(registers, "A") = result
            /\ get_flags(registers) \div 16 =
                   FlagNibble(result = 0, FALSE, (a % 16) + (x % 16) > 15, a + x > 255)

\* C16, its case: an ADD of 0xFF and 0x01 with no flag set before, which carries out
\* of both nibbles and leaves zero.
C16_AddCarried ==
    /\ Executed(AddOpcodes)
    /\ read_r8(last.registers, "A") = \hFF
    /\ AddOperand(last.opcode, last.registers, memory) = \h01
    /\ get_flags(last.registers) = 0
    /\ read_r8(registers, "A") = 0
    /\ get_flags(registers) = \hB0

\* The run is one of LD A,a; LD B,b; ADD A,B from reset.
CycleRun == boot_image \in {image(code) : code \in CyclePrograms}

\* C17 as the specification states it: LD A,d8; LD B,d8; ADD A,B report one cycle
\* each, three in all.
C17_OneCycleEach ==
    CycleRun =>
        /\ (turn = "ppu" /\ steps \in {1, 2, 3} /\ ~panicked) => memory.cpu_cycles = 1
        /\ (turn = "cpu" /\ steps = 3 /\ ~panicked) => ppu.total_cycles = 3

\* C17: LD A,d8 and LD B,d8 report 2 cycles each and ADD A,B reports 1, 5 in all,
\* and the three steps leave A = (a + b) mod 256 with the flags of that addition
\* (A = 0x30 and no flag set for 0x10 and 0x20).
C17_LoadLoadAdd ==
    CycleRun =>
        /\ (turn = "ppu" /\ steps \in {1, 2} /\ ~panicked) => memory.cpu_cycles = 2
        /\ (turn = "ppu" /\ steps = 3 /\ ~panicked) => memory.cpu_cycles = 1
        /\ (turn = "cpu" /\ steps = 3) =>
               LET a == boot_image[1]
                   b == boot_image[3]
               IN  /\ ~panicked
                   /\ ppu.total_cycles = 5
                   /\ read_r8(registers, "A") = (a + b) % 256
                   /\ read_r8(registers, "B") = b
                   /\ get_flags(registers) \div 16 =
                          FlagNibble((a + b) % 256 = 0, FALSE,
                                     (a % 16) + (b % 16) > 15, a + b > 255)
                   /\ (a = \h10 /\ b = \h20) =>
                          read_r8(registers, "A") = \h30 /\ get_flags(registers) = 0

\* C17, its case: LD A,0x10; LD B,0x20; ADD A,B has run and the PPU has been fed
\* the cycles of all three steps.
C17_ThreeStepsRun ==
    /\ boot_image = image(<<\h3E, \h10, \h06, \h20, \h80>>)
    /\ turn = "cpu" /\ steps = 3 /\ ~panicked
    /\ registers.pc = 5
    /\ read_r8(registers, "A") = \h30
    /\ ppu.total_cycles = 5

IncOpcodes == {\h04, \h0C, \h14, \h1C, \h24, \h2C, \h34, \h3C}
DecOpcodes == {\h05, \h0D, \h15, \h1D, \h25, \h2D, \h35, \h3D}

\* C18: INC and DEC of a register or of (HL) leave the old byte plus or minus one
\* modulo 256 with Z = (result = 0), N = 0 for INC and 1 for DEC, C as before, and
\* H = 1 exactly when the old low nibble is 0xF for INC and 0x0 for DEC.
C18_IncDec8 ==
    [][(/\ turn = "cpu" /\ turn' = "ppu" /\ ~panicked'
        /\ ~last'.prefixed /\ last'.opcode \in IncOpcodes \cup DecOpcodes)
       => LET index == last'.opcode \div 8
              inc == last'.opcode \in IncOpcodes
              old == Operand8(index, registers, memory)
              result == (IF inc THEN old + 1 ELSE old + 255) % 256
          IN  /\ Operand8(index, registers', memory') = result
              /\ get_flags(registers') \div 16 =
                     FlagNibble(result = 0, ~inc,
                                IF inc THEN old % 16 = 15 ELSE old % 16 = 0,
                                carry_flag(registers))]_vars

-----------------------------------------------------------------------------
(* Rotation through the carry (checked under SpecRotate).                  *)

RlOpcodes == {\h10, \h11, \h12, \h13, \h14, \h15, \h17}

\* C14: RL moves bit 7 of its operand into the carry and the old carry into bit 0,
\* and nine RL in a row on the same register return the register and the carry to
\* the values they had before the first.
C14_RlNineTimes ==
    /\ (/\ turn = "ppu" /\ ~panicked /\ last.op = "Cpu::step" /\ last.prefixed
        /\ last.opcode \in RlOpcodes)
           => LET index == last.opcode % 8
                  old == Operand8(index, last.registers, memory)
                  carry == IF carry_flag(last.registers) THEN 1 ELSE 0
              IN  /\ Operand8(index, registers, memory) = (old * 2 + carry) % 256
                  /\ carry_flag(registers) = (old >= 128)
    /\ (registers.pc = 28 /\ boot_image \in {image(code) : code \in RotatePrograms})
           => /\ ~panicked
              /\ Operand8(boot_image[11] % 8, registers, memory) = boot_image[9]
              /\ carry_flag(registers) = (BitAnd(boot_image[4], CARRY_FLAG) = CARRY_FLAG)

\* C14, its case: nine RL of 0xA5 with the carry set have run, the eighth of them
\* having left 0xD2.
C14_NineDone ==
    /\ registers.pc = 28 /\ turn = "ppu" /\ ~panicked
    /\ last.prefixed /\ last.opcode \in RlOpcodes
    /\ boot_image[9] = \hA5 /\ boot_image[4] = \h10
    /\ Operand8(last.opcode % 8, registers, memory) = \hA5
    /\ Operand8(last.opcode % 8, last.registers, memory) = \hD2
    /\ carry_flag(registers) /\ carry_flag(last.registers)

-----------------------------------------------------------------------------
(* Properties of the pixel buffer (checked under SpecDraw).                *)

\* The buffer offsets a step has written: the offsets are recorded in the domain of
\* pixel_data as they are written.
Drawn(before, after) ==
    {o \in DOMAIN after : o \notin DOMAIN before \/ after[o] # before[o]}

\* C20: every byte a PPU step writes into the pixel buffer is 0x00, 0x60, 0xA0 or
\* 0xFF, is written together with the two other bytes of its pixel, which get the
\* same value, and lies at offset (LY * 160 + x) * 3 + i for a column x in 0..159
\* of the scanline LY in 0..143 being drawn, that is inside the buffer and inside
\* the row of LY.
C20_PixelWrites ==
    [][\A o \in Drawn(pixel_data, pixel_data') :
          LET pixel == o \div BYTES_PER_PIXEL
              LY == ppu'.scanline
          IN  /\ pixel_data'[o] \in {\h00, \h60, \hA0, \hFF}
              /\ \A i \in 0 .. (BYTES_PER_PIXEL - 1) :
                     /\ (pixel * BYTES_PER_PIXEL + i) \in DOMAIN pixel_data'
                     /\ pixel_data'[pixel * BYTES_PER_PIXEL + i] = pixel_data'[o]
              /\ LY < GAMEBOY_SCREEN_HEIGHT
              /\ pixel \div GAMEBOY_SCREEN_WIDTH = LY
              /\ o < GAMEBOY_SCREEN_WIDTH * GAMEBOY_SCREEN_HEIGHT * BYTES_PER_PIXEL]_vars

-----------------------------------------------------------------------------
(* Properties of the decoder (checked under SpecUnknown and SpecDecode).   *)

\* C21: a CPU step whose opcode at PC (or whose byte after a 0xCB prefix) has no
\* entry in its table ends in the fatal error state and executes nothing: PC, SP,
\* every register, all memory and the cycle counter are as before the step.
C21_UnknownOpcode ==
    [][(/\ turn = "cpu" /\ turn' = "ppu"
        /\ fetch(registers, memory).opcode # PANIC
        /\ ~from_byte(fetch(registers, memory).opcode,
                      fetch(registers, memory).prefixed).some)
          => /\ panicked'
             /\ registers' = registers
             /\ memory' = memory]_vars

\* C21, its case: a step has failed on a byte without an entry, after the program
\* loaded A = 0xA5, F = 0xF0, SP = 0xC100 and stored 0x5A, in 3 cycles, at 0xC000.
C21_UnknownReached ==
    /\ panicked /\ last.op = "Cpu::step" /\ ~last.prefixed
    /\ last.opcode \in AbsentOpcodes
    /\ registers = last.registers
    /\ read_r8(registers, "A") = \hA5 /\ get_flags(registers) = \hF0
    /\ get_pc(registers) = 13
    /\ read_u8(memory, \hC000) = \h5A
    /\ memory.cpu_cycles = 3

\* The bytes the unprefixed table is said to have no entry for.
HoleOpcodes == {\hD3, \hDB, \hDD, \hE3, \hE4, \hEB, \hEC, \hED, \hF4, \hFC, \hFD}

\* C22: the unprefixed table has an entry for every byte except exactly 0xCB, 0x76
\* and the hole opcodes, and the CB-prefixed table has an entry for all 256 bytes.
C22_AbsentEntries ==
    last.op = "from_byte"
        => ((last.value = PANIC)
               <=> (~last.prefixed /\ last.opcode \in ({\hCB, \h76} \cup HoleOpcodes)))

-----------------------------------------------------------------------------
(* Properties of the PPU's modes and scanlines (checked under SpecLcd and  *)
(* SpecPpu). Ppu::draw_scanline starts with lcd_control.update(memory), so *)
(* a step has emitted a scanline when it leaves in ppu.lcd_control what    *)
(* LCDC holds; no other code writes ppu.lcd_control or the pixel buffer.   *)

\* The dots in the mode once a PPU step has added those of its cycles.
DotsFed == ppu.dots_in_mode + 4 * (ppu'.total_cycles - ppu.total_cycles)

\* A step of the PPU (every step adds at least one cycle to total_cycles).
PpuStepped == ppu'.total_cycles # ppu.total_cycles /\ ~panicked'

\* The step has emitted the scanline LY, or has emitted nothing.
Emitted == /\ ppu'.lcd_control = LcdControl_update(memory)
           /\ ppu'.scanline = ppu.scanline
NothingEmitted == ppu'.lcd_control = ppu.lcd_control /\ pixel_data' = pixel_data

BudgetCompleted ==
    IF ppu'.current_mode = ppu.current_mode /\ ppu'.scanline = ppu.scanline THEN 0
    ELSE CASE ppu.current_mode = "OAM" -> 80
           [] ppu.current_mode = "VRAM" -> 168
           [] ppu.current_mode = "HBLANK" -> 208
           [] ppu.current_mode = "VBLANK" -> 456

\* C24: the PPU discards no dots: whenever a budget is exhausted (80 in OAM, 168 in
\* VRAM, 208 in HBLANK, 456 on a VBLANK line) the dot counter is reduced by exactly
\* that budget and the surplus is kept, so that the dots fed (4 for each cycle)
\* always equal the budgets completed plus the dot counter.
C24_NoDotsDiscarded ==
    [][PpuStepped => ppu'.dots_in_mode = DotsFed - BudgetCompleted]_vars


\* C25: between two frame-ready signals the PPU emits exactly 144 scanlines, one for
\* each LY = 0, 1, ..., 143 in increasing order and each at a VRAM to HBLANK
\* transition, and then spends the 10 blank lines LY = 144 ... 153, of 456 dots
\* each, in VBLANK, where no scanline is emitted. Step by step: a scanline is
\* emitted at every VRAM to HBLANK transition and nowhere else; LY moves only to
\* the next line, or from 153 to 0 together with the frame-ready signal; a blank
\* line ends only once it has had its 456 dots.
C25_FrameLines ==
    [][PpuStepped =>
          /\ IF ppu.current_mode = "VRAM" /\ ppu'.current_mode = "HBLANK"
             THEN Emitted /\ ppu.scanline \in 0 .. 143
             ELSE NothingEmitted
          /\ ppu'.scanline # ppu.scanline =>
                 \/ ppu'.scanline = ppu.scanline + 1
                 \/ ppu.scanline = 153 /\ ppu'.scanline = 0
          /\ frame_ready' <=> (ppu.scanline = 153 /\ ppu'.scanline = 0)
          /\ (ppu.current_mode = "VBLANK" /\ ppu'.scanline # ppu.scanline) =>
                 /\ DotsFed >= 456
                 /\ ppu.scanline \in 144 .. 153]_vars


\* C26: right after every PPU step that changes the scanline (the increment in
\* HBLANK or in VBLANK, or the reset to 0) the byte the bus reads at 0xFF44 is the
\* PPU's LY, whatever the CPU wrote to 0xFF44 before.
C26_LyMirrored ==
    [][(PpuStepped /\ ppu'.scanline # ppu.scanline)
          => read_u8(memory', \hFF44) = ppu'.scanline]_vars

\* C26, its case: the program has written 0xAB to 0xFF44, and the PPU has just
\* ended the frame and reset LY to 0, after the increments of HBLANK and VBLANK.
C26_LyResetAfterWrite ==
    /\ last.op = "write_u8" /\ last.address = \hFF44 /\ last.value = \hAB
    /\ frames = 1 /\ frame_ready
    /\ ppu.scanline = 0 /\ ppu.current_mode = "OAM"
    /\ read_u8(memory, \hFF44) = 0

\* C27: a PPU step changes no byte the bus can read other than 0xFF44, changes
\* neither the boot latch nor the cycle counter (it still holds the cycles the step
\* was fed) and changes no CPU register; the write of LY never clears the latch.
C27_PpuWritesOnlyLy ==
    [][PpuStepped =>
          /\ registers' = registers
          /\ memory'.boot_enabled = memory.boot_enabled
          /\ memory'.cpu_cycles = ppu'.total_cycles - ppu.total_cycles
          /\ \A chunk \in {"boot", "cart_bank_0", "cart_bank_n", "cart_ram", "vram", "iram"} :
                 memory'[chunk] = memory[chunk]
          /\ \A o \in ((DOMAIN memory'.high_ram) \cup (DOMAIN memory.high_ram))
                          \ {\hFF44 - START_OF_HIGH_RAM} :
                 chunk_read_u8(memory'.high_ram, o) = chunk_read_u8(memory.high_ram, o)]_vars

\* C27, its case: the PPU has written LY = 144 to 0xFF44 and the boot latch is still
\* set, the program's byte at 0xFF40 and the registers are as they were.
C27_LyWrittenLatchSet ==
    /\ ppu.scanline = 144 /\ ppu.current_mode = "VBLANK"
    /\ read_u8(memory, \hFF44) = 144
    /\ memory.boot_enabled
    /\ read_u8(memory, \hFF40) = \h80
    /\ memory.cpu_cycles = 5
    /\ registers = Registers_default

\* C28: in every state PPU steps reach, LY is in 0..153, the mode is VBLANK exactly
\* when LY is in 144..153, and in OAM, VRAM and HBLANK (whenever a scanline can be
\* emitted) LY is at most 143.
C28_LyRange ==
    ~panicked =>
        /\ ppu.scanline \in 0 .. 153
        /\ (ppu.current_mode = "VBLANK") <=> (ppu.scanline \in 144 .. 153)
        /\ ppu.current_mode \in {"OAM", "VRAM", "HBLANK"} => ppu.scanline <= 143

\* C28, its case: the PPU is in VBLANK on the last blank line it shows, LY = 152.
C28_LastBlankLine ==
    /\ ppu.current_mode = "VBLANK" /\ ppu.scanline = 152 /\ ppu.dots_in_mode > 0
    /\ ~panicked

-----------------------------------------------------------------------------
(* Properties of calls and returns (checked under SpecCall).               *)

CallOpcodes == {\hCD, \hC4, \hCC, \hD4, \hDC}

\* C29: CALL cc,a16 fetched at P, when (F & mask) = expected, decreases SP by 2,
\* stores the return address P + 3 little-endian at the new SP (low byte at SP,
\* high byte at SP + 1), sets PC to the operand and reports 6 cycles; otherwise it
\* sets PC to P + 3, leaves SP and memory unchanged and reports 3 cycles.
C29_CallCc ==
    [][LET f == fetch(registers, memory)
           P == get_pc(registers)
           imm16 == read_u16(memory, wrapping_add16(P, 1))
           data == from_byte(f.opcode, FALSE).data
           taken == BitAnd(get_flags(registers), unwrap(data.flag_mask))
                        = unwrap(data.flag_expected)
           SP == registers.sp
       IN  (/\ turn = "cpu" /\ turn' = "ppu" /\ ~panicked'
            /\ ~f.prefixed /\ f.opcode \in CallOpcodes)
           => /\ taken => /\ registers'.sp = SP - 2
                          /\ read_u8(memory', SP - 2) = (P + 3) % 256
                          /\ read_u8(memory', SP - 1) = (P + 3) \div 256
                          /\ get_pc(registers') = imm16
                          /\ memory'.cpu_cycles = 6
              /\ ~taken => /\ get_pc(registers') = P + 3
                           /\ registers'.sp = SP
                           /\ memory' = [memory EXCEPT !.cpu_cycles = 3]]_vars

RetOpcodes == {\hC9, \hC0, \hC8, \hD0, \hD8}

\* C30: RET sets PC to the 16-bit little-endian value at SP, increases SP by 2 and
\* reports 4 cycles; a conditional RET that is taken does the same and reports 5
\* cycles; one that is not taken increases PC by 1, leaves SP unchanged and reports
\* 2 cycles.
C30_Ret ==
    [][LET f == fetch(registers, memory)
           P == get_pc(registers)
           data == from_byte(f.opcode, FALSE).data
           taken == \/ f.opcode = \hC9
                    \/ BitAnd(get_flags(registers), unwrap(data.flag_mask))
                           = unwrap(data.flag_expected)
           SP == registers.sp
       IN  (/\ turn = "cpu" /\ turn' = "ppu" /\ ~panicked'
            /\ ~f.prefixed /\ f.opcode \in RetOpcodes)
           => /\ taken => /\ get_pc(registers')
                                 = read_u8(memory, SP) + 256 * read_u8(memory, SP + 1)
                          /\ registers'.sp = SP + 2
                          /\ memory'.cpu_cycles = IF f.opcode = \hC9 THEN 4 ELSE 5
              /\ ~taken => /\ get_pc(registers') = P + 1
                           /\ registers'.sp = SP
                           /\ memory'.cpu_cycles = 2]_vars

\* C30, its case: RET has popped 0xC234, which the program pushed at 0xC0FE, into
\* PC, in 4 cycles, and SP is back at 0xC100.
C30_Returned ==
    /\ turn = "ppu" /\ ~panicked /\ last.op = "Cpu::step" /\ ~last.prefixed
    /\ last.opcode = \hC9
    /\ last.registers.sp = \hC0FE
    /\ read_u8(memory, \hC0FE) = \h34 /\ read_u8(memory, \hC0FF) = \hC2
    /\ get_pc(registers) = \hC234
    /\ registers.sp = \hC100
    /\ memory.cpu_cycles = 4

-----------------------------------------------------------------------------
(* Addition and subtraction with the carry (checked under SpecAlu8).       *)

\* A CPU step on one of the opcodes has just run, whether or not it ended in a panic.
Stepped(opcodes) ==
    /\ turn = "ppu" /\ last.op = "Cpu::step" /\ ~last.prefixed
    /\ last.opcode \in opcodes

\* The operand of an accumulator opcode: the register field for 0x80..0xBF, the
\* byte after the opcode for the immediate forms.
AluOperand(opcode, regs, mem) ==
    IF opcode \in ImmOpcodes THEN read_u8(mem, wrapping_add16(get_pc(regs), 1))
    ELSE Operand8(opcode % 8, regs, mem)

\* Whether the flag of the given mask is set in F.
Flag(regs, mask) == BitAnd(get_flags(regs), mask) = mask

AdcOpcodes == (\h88 .. \h8F) \cup {\hCE}

\* C31: ADC A,x completes for every A, x and carry-in c, 0xFF with c = 1 included,
\* and leaves A = (A + x + c) mod 256, C = (A + x + c > 0xFF), Z = (result = 0) and
\* N = 0.
C31_Adc ==
    Stepped(AdcOpcodes) =>
        LET a == read_r8(last.registers, "A")
            x == AluOperand(last.opcode, last.registers, memory)
            c == carry_u8(last.registers)
            result == (a + x + c) % 256
        IN  /\ ~panicked
            /\ read_r8(registers, "A") = result
            /\ carry_flag(registers) = (a + x + c > 255)
            /\ Flag(registers, ZERO_FLAG) = (result = 0)
            /\ ~Flag(registers, SUBTRACT_FLAG)

SbcOpcodes == (\h98 .. \h9F) \cup {\hDE}

\* C32: SBC A,x completes for every A, x and carry-in c, 0x00 with c = 1 included,
\* and leaves A = (A - x - c) mod 256, C = (A < x + c), Z = (result = 0) and N = 1.
C32_Sbc ==
    Stepped(SbcOpcodes) =>
        LET a == read_r8(last.registers, "A")
            x == AluOperand(last.opcode, last.registers, memory)
            c == carry_u8(last.registers)
            result == (a + 512 - x - c) % 256
        IN  /\ ~panicked
            /\ read_r8(registers, "A") = result
            /\ carry_flag(registers) = (a < x + c)
            /\ Flag(registers, ZERO_FLAG) = (result = 0)
            /\ Flag(registers, SUBTRACT_FLAG)

SubOpcodes == (\h90 .. \h97) \cup {\hD6}
CpOpcodes == (\hB8 .. \hBF) \cup {\hFE}

\* C33: SUB and CP set H = ((A & 0xF) < (x & 0xF)), C = (A < x), N = 1 and
\* Z = (A = x); CP leaves A as it was and SUB stores (A - x) mod 256 in A.
C33_SubCp ==
    Stepped(SubOpcodes \cup CpOpcodes) =>
        LET a == read_r8(last.registers, "A")
            x == AluOperand(last.opcode, last.registers, memory)
        IN  /\ ~panicked
            /\ get_flags(registers) \div 16 =
                   FlagNibble(a = x, TRUE, (a % 16) < (x % 16), a < x)
            /\ read_r8(registers, "A") =
                   IF last.opcode \in CpOpcodes THEN a ELSE (a + 256 - x) % 256

AddHlOpcodes == {\h09, \h19, \h29, \h39}

\* The register pair the bits 4 and 5 of an opcode name: BC, DE, HL, SP
Operand16(index) ==
    CASE index = 0 -> "BC" [] index = 1 -> "DE" [] index = 2 -> "HL" [] index = 3 -> "SP"

\* C34: ADD HL,rr leaves HL = (HL + rr) mod 65536, keeps rr when rr is not HL,
\* keeps Z, clears N, sets H to the carry out of bit 11 and C to the carry out of
\* bit 15.
C34_AddHl ==
    Stepped(AddHlOpcodes) =>
        LET rr == Operand16(last.opcode \div 16)
            v == read_r16(last.registers, "HL")
            w == read_r16(last.registers, rr)
        IN  /\ ~panicked
            /\ read_r16(registers, "HL") = (v + w) % 65536
            /\ rr # "HL" => read_r16(registers, rr) = w
            /\ Flag(registers, ZERO_FLAG) = Flag(last.registers, ZERO_FLAG)
            /\ ~Flag(registers, SUBTRACT_FLAG)
            /\ Flag(registers, HALF_CARRY_FLAG) = ((v % 4096) + (w % 4096) > 4095)
            /\ carry_flag(registers) = (v + w > 65535)

-----------------------------------------------------------------------------
(* BIT, RES and SET (checked under SpecBit).                               *)

\* C35: BIT n sets Z exactly when bit n of the operand is 0, clears N, sets H and
\* leaves C and the operand as they were; RES n and SET n change bit n of the
\* operand to 0 and to 1, no other bit of it, and none of the four flags.
C35_BitResSet ==
    [][(/\ turn = "cpu" /\ turn' = "ppu" /\ ~panicked'
        /\ last'.prefixed /\ last'.opcode \in \h40 .. \hFF)
       => LET opcode == last'.opcode
              n == (opcode \div 8) % 8
              old == Operand8(opcode % 8, registers, memory)
              new == Operand8(opcode % 8, registers', memory')
              set == (old \div (2 ^ n)) % 2 = 1
          IN  CASE opcode < \h80 ->
                     /\ new = old
                     /\ get_flags(registers') \div 16 =
                            FlagNibble(~set, FALSE, TRUE, carry_flag(registers))
                [] opcode \in \h80 .. \hBF ->
                     /\ new = (IF set THEN old - (2 ^ n) ELSE old)
                     /\ get_flags(registers') = get_flags(registers)
                [] opcode >= \hC0 ->
                     /\ new = (IF set THEN old ELSE old + (2 ^ n))
                     /\ get_flags(registers') = get_flags(registers)]_vars

\* C35, its case: BIT 3,(HL) on the byte 0xA5 with only the carry set before leaves
\* Z, H and the carry set and the byte as it was.
C35_BitTested ==
    /\ turn = "ppu" /\ ~panicked /\ last.op = "Cpu::step"
    /\ last.prefixed /\ last.opcode = \h5E
    /\ get_flags(last.registers) = \h10
    /\ read_u8(memory, read_r16(registers, "HL")) = \hA5
    /\ get_flags(registers) = \hB0

-----------------------------------------------------------------------------
(* The width of the instructions (checked under SpecWidth).                *)

\* LD rr,d16; LD (a16),SP; LD (a16),A; LD A,(a16)
Imm16Opcodes == {\h01, \h11, \h21, \h31, \h08, \hEA, \hFA}

\* LD r,d8; LD (HL),d8; the eight accumulator operations on d8; the two loads at
\* 0xFF00 + a8; STOP
Imm8Opcodes == LdImm8 \cup {\h36} \cup ImmOpcodes \cup {\hE0, \hF0} \cup {\h10}

\* The encoded width of an instruction.
Width(opcode, prefixed) ==
    IF prefixed THEN 2
    ELSE IF opcode \in Imm16Opcodes THEN 3
    ELSE IF opcode \in Imm8Opcodes THEN 2
    ELSE 1

\* C36: an instruction that does not transfer control advances PC by its encoded
\* width: 2 with an 8-bit immediate, for STOP and for the prefixed opcodes, 3 with
\* a 16-bit immediate, 1 otherwise.
C36_PcAdvance ==
    (/\ turn = "ppu" /\ ~panicked /\ last.op = "Cpu::step"
     /\ (last.prefixed \/ last.opcode \notin ControlOpcodes))
    =>  get_pc(registers) =
            wrapping_add16(get_pc(last.registers), Width(last.opcode, last.prefixed))

-----------------------------------------------------------------------------
(* The echo range (checked under SpecEcho).                                *)

\* C37: a read_u8 or write_u8 at an address in 0xE000..0xFDFF ends in a panic and
\* leaves every byte of memory as it was.
C37_EchoFatal ==
    [][(/\ steps' = steps + 1
        /\ last'.op \in {"read_u8", "write_u8"}
        /\ last'.address \in \hE000 .. \hFDFF)
       => (panicked' /\ memory' = memory)]_vars

\* C37, its case: after 0xAB was written to 0xC000, a write of 0x01 to its echo
\* 0xE000 has panicked and 0xC000 still holds 0xAB.
C37_EchoWritten ==
    /\ panicked /\ last.op = "write_u8" /\ last.address = \hE000 /\ last.value = \h01
    /\ read_u8(memory, \hC000) = \hAB

-----------------------------------------------------------------------------
(* The pixel value of a tile (checked under SpecTile).                     *)

\* C38: the value of pixel (x, y) of a tile is bit 7 - x of byte 2y as the low bit
\* and bit 7 - x of byte 2y + 1 as the high bit.
C38_TileValue ==
    last.op = "value_at" =>
        LET x == last.opcode[1]
            y == last.opcode[2]
            data == Tile_new(0, memory).data
            low == IF bit_set(data[2 * y], 7 - x) THEN 1 ELSE 0
            high == IF bit_set(data[(2 * y) + 1], 7 - x) THEN 2 ELSE 0
        IN  last.value = low + high

-----------------------------------------------------------------------------
(* Call and return (checked under SpecRoundTrip).                          *)

\* The RET at 0x0200 or at an RST vector has just run: the call at 0x0150 was taken.
Returned(from) ==
    /\ turn = "ppu" /\ ~panicked /\ last.op = "Cpu::step" /\ ~last.prefixed
    /\ last.opcode = \hC9 /\ get_pc(last.registers) \in from

\* C39: a taken CALL fetched at P and the RET that follows leave PC = P + 3 and SP
\* as it was before the CALL; an RST n and the RET that follows leave PC = P + 1
\* and SP as it was.
C39_RoundTrip ==
    /\ Returned({\h0200}) =>
           /\ get_pc(registers) = \h0153
           /\ read_r16(registers, "SP") = boot_image[1] + (256 * boot_image[2])
    /\ Returned({\h00, \h08, \h10, \h18, \h20, \h28, \h30, \h38}) =>
           /\ get_pc(registers) = \h0151
           /\ read_r16(registers, "SP") = boot_image[1] + (256 * boot_image[2])

-----------------------------------------------------------------------------
(* The operand of the accumulator opcodes (checked under SpecAlu8).        *)

\* What opcodes 0x80..0xBF leave in A, of A, the operand x and the carry c: the
\* groups of eight are ADD, ADC, SUB, SBC, AND, XOR, OR and CP. ADC and SBC as
\* adc_r8 and sbc_r8 compute them, the carry joined to the operand first.
AluResult(opcode, a, x, c) ==
    CASE opcode \in \h80 .. \h87 -> (a + x) % 256
      [] opcode \in \h88 .. \h8F -> overflowing_add(a, (x + c) % 256)[1]
      [] opcode \in \h90 .. \h97 -> (a + 256 - x) % 256
      [] opcode \in \h98 .. \h9F -> overflowing_sub(a, (x + 256 - c) % 256)[1]
      [] opcode \in \hA0 .. \hA7 -> BitAnd(a, x)
      [] opcode \in \hA8 .. \hAF -> BitXor(a, x)
      [] opcode \in \hB0 .. \hB7 -> BitOr(a, x)
      [] opcode \in \hB8 .. \hBF -> a

\* C40: for every opcode in 0x80..0xBF the operand used is the one its low three
\* bits select in the order B, C, D, E, H, L, (HL), A: the step leaves in A the
\* result of the operation on A and that operand, and the zero flag of A compared
\* with that operand for CP.
C40_OperandField ==
    Executed(\h80 .. \hBF) =>
        LET a == read_r8(last.registers, "A")
            x == Operand8(last.opcode % 8, last.registers, memory)
            c == carry_u8(last.registers)
        IN  /\ read_r8(registers, "A") = AluResult(last.opcode, a, x, c)
            /\ last.opcode \in \hB8 .. \hBF => Flag(registers, ZERO_FLAG) = (a = x)

====
